---- MODULE Spec2Model ----
(***************************************************************************)
(* State-machine model of the turn-based conquest engine: GameState and    *)
(* Player/Territory (core/models.js), GameEngine (core/game-engine.js),    *)
(* the card trade of the enhanced game state, EventsManager effects and    *)
(* the phase / placement handlers of App.jsx.                              *)
(*                                                                         *)
(* Nullable fields of the program (pendingConquest, remainingReinforce-    *)
(* ments) are sequences of length 0 (null / undefined) or 1.  Player ids   *)
(* that may be null use the string NoPlayer.                               *)
(***************************************************************************)
EXTENDS Integers, Sequences, FiniteSets, TLC

\* ---------------------------------------------------------------- bounds
MaxTurn == 1          \* the turn counter is explored up to this value
MaxArmies == 4        \* army value per territory explored up to this value
DieSides == 2         \* faces of a die that are sampled (order is all that matters)
MaxDeficit == 1       \* unit counts are explored down to -MaxDeficit
MaxEvents == 1        \* world events explored per game

\* ------------------------------------------------------------ data tables
PlayerIds == <<"p1", "p2", "p3">>
Players == {PlayerIds[i] : i \in 1..Len(PlayerIds)}
NoPlayer == "null"

TerritoryIds == <<"t1", "t2", "t3">>
Territories == {TerritoryIds[i] : i \in 1..Len(TerritoryIds)}

\* a path t2 - t1 - t3
adjacentTerritories ==
  [t \in Territories |->
     CASE t = "t1" -> {"t2", "t3"}
       [] t = "t2" -> {"t1"}
       [] t = "t3" -> {"t1"}]

Continents ==
  { [id |-> "c1", territories |-> {"t1", "t3"}, bonusArmies |-> 2],
    [id |-> "c2", territories |-> {"t4", "t5"}, bonusArmies |-> 3] }

Phases == {"reinforcement", "attack", "fortification"}

\* ------------------------------------------------------------------ state
VARIABLES
  occupyingPlayer,          \* territory.occupyingPlayer
  armies,                   \* territory.armies {infantry, cavalry, artillery}
  playerTerritories,        \* player.territories (a list)
  playerCards,              \* player.cards (a list of card ids)
  eliminated,               \* player.eliminated
  cardDeck,                 \* gameState.cardDeck
  discardPile,              \* gameState.discardPile
  currentPlayerIndex,       \* gameState.currentPlayerIndex (0-based)
  phase,                    \* gameState.phase
  turn,                     \* gameState.turn
  gameOver,                 \* gameState.gameOver
  winner,                   \* gameState.winner (id or NoPlayer)
  victoryType,              \* gameState.victoryType ("" = undefined)
  pendingConquest,          \* gameState.pendingConquest
  cardAwarded,              \* gameState.cardAwarded
  remainingReinforcements,  \* gameState.remainingReinforcements
  eventLog,                 \* gameState.eventLog (the type of each entry)
  eventHistory,             \* eventsManager.eventHistory (type and expired of each entry)
  enableEvents,             \* gameState.config.enableEvents
  activeEvents,             \* eventsManager.activeEvents
  reversals,                \* history: the events handed to reverseEventEffects
  conquestAttacker,         \* history: caller of the attack that opened pendingConquest
  victoryProgress,          \* player.victoryProgress.economic.count
  features,                 \* territory.features
  featuresBefore,           \* history: territory.features before the last territory event
  technologies,             \* player.technologies (a list)
  researchPoints,           \* player.resources.research
  researchProgress,         \* techManager.researchProgress: per player, the entries
                            \* [techId, turnsRemaining] in the order they were added
  result                    \* return value of the last call

researchVars == <<technologies, researchPoints, researchProgress>>

gameVars == <<occupyingPlayer, armies, playerTerritories, playerCards, eliminated,
              cardDeck, discardPile, currentPlayerIndex, phase, turn, gameOver,
              winner, victoryType, pendingConquest, cardAwarded,
              remainingReinforcements>>

vars == <<occupyingPlayer, armies, playerTerritories, playerCards, eliminated,
          cardDeck, discardPile, currentPlayerIndex, phase, turn, gameOver,
          winner, victoryType, pendingConquest, cardAwarded,
          remainingReinforcements, eventLog, eventHistory, enableEvents,
          activeEvents, reversals, conquestAttacker, victoryProgress, features,
          featuresBefore, technologies, researchPoints, researchProgress,
          result>>

\* the technologies of the tech tree that the model follows (five of the
\* research branch, one of the economic branch): cost and prerequisites
TechTree ==
  [id \in {"mining", "scientific-method", "education", "universities",
           "knowledge-sharing", "advanced-research"} |->
     CASE id = "mining"            -> [cost |-> 10, prerequisites |-> {}]
       [] id = "scientific-method" -> [cost |-> 10, prerequisites |-> {}]
       [] id = "education"         -> [cost |-> 10, prerequisites |-> {}]
       [] id = "universities"      -> [cost |-> 15,
                                       prerequisites |-> {"scientific-method"}]
       [] id = "knowledge-sharing" -> [cost |-> 15, prerequisites |-> {"education"}]
       [] id = "advanced-research" -> [cost |-> 20,
                                       prerequisites |-> {"universities"}]]

Techs == DOMAIN TechTree

\* TechManager constructor: researchProgress[player.id] = {}
NoResearch == [p \in Players |-> << >>]

\* Territory.features: the flags a new territory starts with, all false
FeatureNames == {"hasResearchCenter", "hasCapital", "hasPort"}
NoFeatures == [t \in Territories |-> [f \in FeatureNames |-> FALSE]]

\* an event without territoryEffect.feature
NoTerritoryEffect == [feature |-> "", value |-> FALSE]

\* ---------------------------------------------------------------- helpers
Min(a, b) == IF a <= b THEN a ELSE b
Max(a, b) == IF a >= b THEN a ELSE b

Includes(s, x) == \E i \in 1..Len(s) : s[i] = x

Filter(s, keep(_)) == SelectSeq(s, keep)

Units(i, c, a) == [infantry |-> i, cavalry |-> c, artillery |-> a]

getTotalArmies(a) == a.infantry + (a.cavalry * 3) + (a.artillery * 5)

isAdjacentTo(t, other) == other \in adjacentTerritories[t]

getCurrentPlayer == PlayerIds[currentPlayerIndex + 1]

NoResult ==
  [op |-> "", success |-> FALSE, exception |-> FALSE,
   attackerLosses |-> 0, defenderLosses |-> 0,
   territoryConquered |-> FALSE, minArmies |-> 0, maxArmies |-> 0,
   defenderEliminated |-> FALSE, armies |-> 0, setNumber |-> 0]

\* a rejected call: { success: false, ... } or false
Failure(op) == [NoResult EXCEPT !.op = "rejected"]

\* ------------------------------------------------------------------- dice
\* rollDice(count): count independent values in 1..DieSides
rollDice(count) == [1..count -> 1..DieSides]

RemoveAt(s, i) == SubSeq(s, 1, i - 1) \o SubSeq(s, i + 1, Len(s))

RECURSIVE SortDescending(_)
\* Array.sort((a, b) => b - a)
SortDescending(s) ==
  IF Len(s) <= 1 THEN s
  ELSE LET m == CHOOSE i \in 1..Len(s) : \A j \in 1..Len(s) : s[i] >= s[j]
       IN  <<s[m]>> \o SortDescending(RemoveAt(s, m))

\* the comparison loop with a tie counted for neither side
attackerLossesOfStrict(attackRolls, defenseRolls) ==
  Cardinality({i \in 1..Min(Len(attackRolls), Len(defenseRolls)) :
                 attackRolls[i] < defenseRolls[i]})

\* the comparison loop of processAttack: defender wins ties
attackerLossesOf(attackRolls, defenseRolls) ==
  Cardinality({i \in 1..Min(Len(attackRolls), Len(defenseRolls)) :
                 ~(attackRolls[i] > defenseRolls[i])})

defenderLossesOf(attackRolls, defenseRolls) ==
  Cardinality({i \in 1..Min(Len(attackRolls), Len(defenseRolls)) :
                 attackRolls[i] > defenseRolls[i]})

\* casualties are taken from infantry, then cavalry, then artillery,
\* one unit per casualty
applyLosses(a, losses) ==
  LET infantryLosses  == Min(a.infantry, losses)
      rem1            == losses - infantryLosses
      cavalryLosses   == IF rem1 > 0 THEN Min(a.cavalry, rem1) ELSE 0
      rem2            == rem1 - cavalryLosses
      artilleryLosses == IF rem2 > 0 THEN Min(a.artillery, rem2) ELSE 0
  IN  [infantry  |-> a.infantry - infantryLosses,
       cavalry   |-> a.cavalry - cavalryLosses,
       artillery |-> a.artillery - artilleryLosses]

\* ------------------------------------------------------- phases and turns
RECURSIVE skipEliminated(_, _)
\* the while loop of nextPlayer: [index, over]
skipEliminated(nextIndex, cur) ==
  IF ~eliminated[PlayerIds[nextIndex + 1]]
  THEN [index |-> nextIndex, over |-> FALSE]
  ELSE LET n2 == (nextIndex + 1) % Len(PlayerIds)
       IN  IF n2 = cur THEN [index |-> n2, over |-> TRUE]
           ELSE skipEliminated(n2, cur)

nextPlayer ==
  LET r == skipEliminated((currentPlayerIndex + 1) % Len(PlayerIds), currentPlayerIndex)
  IN  /\ currentPlayerIndex' = r.index
      /\ gameOver' = (IF r.over THEN TRUE ELSE gameOver)
      /\ winner' = (IF r.over THEN PlayerIds[currentPlayerIndex + 1] ELSE winner)
      /\ turn' = (IF r.index = 0 THEN turn + 1 ELSE turn)
      /\ turn' <= MaxTurn

\* GameState.nextPhase; awarded is the value of cardAwarded when it is called
nextPhase(awarded) ==
  CASE phase = "reinforcement" ->
         /\ phase' = "attack"
         /\ cardAwarded' = FALSE
         /\ UNCHANGED <<currentPlayerIndex, gameOver, winner, turn>>
    [] phase = "attack" ->
         /\ phase' = "fortification"
         /\ cardAwarded' = awarded
         /\ UNCHANGED <<currentPlayerIndex, gameOver, winner, turn>>
    [] phase = "fortification" ->
         /\ phase' = "reinforcement"
         /\ cardAwarded' = awarded
         /\ nextPlayer

\* --------------------------------------------------------------- attack
\* the validation with the last comparison taken strictly
attackErrorLax(playerId, fromTerritoryId, toTerritoryId, attackDice) ==
  IF getCurrentPlayer # playerId THEN "Not your turn"
  ELSE IF phase # "attack" THEN "Not in attack phase"
  ELSE IF occupyingPlayer[fromTerritoryId] # playerId
       THEN "You do not control the attacking territory"
  ELSE IF occupyingPlayer[toTerritoryId] = playerId
       THEN "You cannot attack your own territory"
  ELSE IF ~isAdjacentTo(fromTerritoryId, toTerritoryId)
       THEN "Territories are not adjacent"
  ELSE IF getTotalArmies(armies[fromTerritoryId]) < 2
       THEN "Need at least 2 armies to attack"
  ELSE IF attackDice < 1 \/ attackDice > 3 THEN "Invalid attack dice count"
  ELSE IF getTotalArmies(armies[fromTerritoryId]) < attackDice
       THEN "Not enough armies for selected dice count"
  ELSE ""

attackError(playerId, fromTerritoryId, toTerritoryId, attackDice) ==
  IF getCurrentPlayer # playerId THEN "Not your turn"
  ELSE IF phase # "attack" THEN "Not in attack phase"
  ELSE IF occupyingPlayer[fromTerritoryId] # playerId
       THEN "You do not control the attacking territory"
  ELSE IF occupyingPlayer[toTerritoryId] = playerId
       THEN "You cannot attack your own territory"
  ELSE IF ~isAdjacentTo(fromTerritoryId, toTerritoryId)
       THEN "Territories are not adjacent"
  ELSE IF getTotalArmies(armies[fromTerritoryId]) < 2
       THEN "Need at least 2 armies to attack"
  ELSE IF attackDice < 1 \/ attackDice > 3 THEN "Invalid attack dice count"
  ELSE IF getTotalArmies(armies[fromTerritoryId]) <= attackDice
       THEN "Not enough armies for selected dice count"
  ELSE ""

\* defense dice count: 1 or 2, never more than the defender's armies
defenseDiceOf(toTerritoryId) == Min(2, getTotalArmies(armies[toTerritoryId]))

processAttack(playerId, fromTerritoryId, toTerritoryId, attackDice) ==
  LET error == attackError(playerId, fromTerritoryId, toTerritoryId, attackDice) IN
  IF error # ""
  THEN /\ result' = Failure("attack")
       /\ UNCHANGED gameVars
       /\ UNCHANGED conquestAttacker
  ELSE
    LET defenseDice == defenseDiceOf(toTerritoryId) IN
    \E rolledA \in rollDice(attackDice), rolledD \in rollDice(defenseDice) :
      LET attackRolls    == SortDescending(rolledA)
          defenseRolls   == SortDescending(rolledD)
          attackerLosses == attackerLossesOf(attackRolls, defenseRolls)
          defenderLosses == defenderLossesOf(attackRolls, defenseRolls)
          fromArmies     == applyLosses(armies[fromTerritoryId], attackerLosses)
          toArmies       == applyLosses(armies[toTerritoryId], defenderLosses)
          conquered      == getTotalArmies(toArmies) = 0
      IN  /\ armies' = [armies EXCEPT ![fromTerritoryId] = fromArmies,
                                      ![toTerritoryId] = toArmies]
          /\ pendingConquest' =
               IF conquered
               THEN << [fromTerritoryId |-> fromTerritoryId,
                        toTerritoryId   |-> toTerritoryId,
                        minArmies       |-> attackDice,
                        maxArmies       |-> getTotalArmies(fromArmies) - 1,
                        defenderId      |-> occupyingPlayer[toTerritoryId]] >>
               ELSE pendingConquest
          /\ conquestAttacker' = (IF conquered THEN playerId ELSE conquestAttacker)
          /\ cardAwarded' = (IF conquered THEN TRUE ELSE cardAwarded)
          /\ result' = [NoResult EXCEPT !.op = "attack", !.success = TRUE,
                          !.attackerLosses = attackerLosses,
                          !.defenderLosses = defenderLosses,
                          !.territoryConquered = conquered]
          /\ UNCHANGED <<occupyingPlayer, playerTerritories, playerCards, eliminated,
                         cardDeck, discardPile, currentPlayerIndex, phase, turn,
                         gameOver, winner, victoryType, remainingReinforcements>>

\* ---------------------------------------------------------- game ending
\* the territories whose resources include wealth
WealthTerritories == {"t1", "t2"}

EconomicTurns == 3

\* the economic branch of checkVictoryConditions from the player at roster
\* position i on: [over, winner, progress]
RECURSIVE economicVictory(_, _, _, _)
economicVictory(i, elim, owner, progress) ==
  IF i > Len(PlayerIds)
  THEN [over |-> FALSE, winner |-> NoPlayer, progress |-> progress]
  ELSE
    LET p == PlayerIds[i]
        playerWealthTerritories == {t \in WealthTerritories : owner[t] = p}
    IN  IF elim[p] THEN economicVictory(i + 1, elim, owner, progress)
        ELSE IF 2 * Cardinality(playerWealthTerritories) > Cardinality(WealthTerritories)
        THEN LET counted == [progress EXCEPT ![p] = @ + 1]
             IN  IF counted[p] >= EconomicTurns
                 THEN [over |-> TRUE, winner |-> p, progress |-> counted]
                 ELSE economicVictory(i + 1, elim, owner, counted)
        ELSE economicVictory(i + 1, elim, owner, [progress EXCEPT ![p] = 0])

\* GameState.checkVictoryConditions on the elimination flags elim and the
\* owners owner: [over, winner, victoryType, progress]; no player of this
\* model holds a technology or an alliance, so the technological and the
\* diplomatic branch declare no winner
checkVictoryConditions(elim, owner, progress) ==
  LET economic == economicVictory(1, elim, owner, progress)
  IN  [over |-> economic.over,
       winner |-> IF economic.over THEN economic.winner ELSE winner,
       victoryType |-> IF economic.over THEN "economic" ELSE victoryType,
       progress |-> economic.progress]

\* GameState.checkGameEnd evaluated on the elimination flags elim and the
\* owners owner: [over, winner, victoryType, progress]
checkGameEnd(elim, owner) ==
  LET activePlayers == {p \in Players : ~elim[p]} IN
  IF Cardinality(activePlayers) = 1
  THEN [over |-> TRUE, winner |-> CHOOSE p \in activePlayers : TRUE,
        victoryType |-> "military", progress |-> victoryProgress]
  ELSE LET v == checkVictoryConditions(elim, owner, victoryProgress)
       IN  [over |-> IF v.over THEN TRUE ELSE gameOver,
            winner |-> v.winner, victoryType |-> v.victoryType,
            progress |-> v.progress]

\* ------------------------------------------------------ conquest decision
completeConquest(playerId, armyCount) ==
  IF pendingConquest = << >>
  THEN /\ result' = Failure("resolveConquest")
       /\ UNCHANGED gameVars
       /\ UNCHANGED <<conquestAttacker, victoryProgress, features, featuresBefore, researchVars>>
  ELSE
    LET pc == pendingConquest[1]
        fromTerritoryId == pc.fromTerritoryId
        toTerritoryId == pc.toTerritoryId
        defenderId == pc.defenderId
    IN
    IF playerId # PlayerIds[currentPlayerIndex + 1]
    THEN /\ result' = Failure("resolveConquest")
         /\ UNCHANGED gameVars
         /\ UNCHANGED <<conquestAttacker, victoryProgress, features, featuresBefore, researchVars>>
    ELSE IF armyCount < pc.minArmies \/ armyCount > pc.maxArmies
    THEN /\ result' = [Failure("resolveConquest")
                         EXCEPT !.minArmies = pc.minArmies,
                                !.maxArmies = pc.maxArmies]
         /\ UNCHANGED gameVars
         /\ UNCHANGED <<conquestAttacker, victoryProgress, features, featuresBefore, researchVars>>
    ELSE
      LET armies1 == [armies EXCEPT ![toTerritoryId].infantry = armyCount,
                                    ![fromTerritoryId].infantry = @ - armyCount]
          owner1  == [occupyingPlayer EXCEPT ![toTerritoryId] = playerId]
          terr1   == [playerTerritories EXCEPT ![playerId] = Append(@, toTerritoryId)]
      IN
      IF defenderId = NoPlayer
      THEN \* players.find returns undefined: defender.territories throws
           \* after the first three assignments
           /\ armies1[fromTerritoryId].infantry >= -MaxDeficit
           /\ occupyingPlayer' = owner1
           /\ armies' = armies1
           /\ playerTerritories' = terr1
           /\ result' = [Failure("resolveConquest") EXCEPT !.exception = TRUE]
           /\ UNCHANGED <<playerCards, eliminated, cardDeck, discardPile,
                          currentPlayerIndex, phase, turn, gameOver, winner,
                          victoryType, pendingConquest, cardAwarded,
                          remainingReinforcements, conquestAttacker,
                          victoryProgress, features, featuresBefore, researchVars>>
      ELSE
        LET terr2 == [terr1 EXCEPT ![defenderId] =
                        SelectSeq(@, LAMBDA id : id # toTerritoryId)]
            out   == Len(terr2[defenderId]) = 0
            elim2 == IF out THEN [eliminated EXCEPT ![defenderId] = TRUE]
                     ELSE eliminated
            cards1 == [playerCards EXCEPT ![playerId] = @ \o playerCards[defenderId]]
            cards2 == IF out THEN [cards1 EXCEPT ![defenderId] = << >>]
                      ELSE playerCards
            end   == IF out THEN checkGameEnd(elim2, owner1)
                     ELSE [over |-> gameOver, winner |-> winner,
                           victoryType |-> victoryType,
                           progress |-> victoryProgress]
        IN  /\ armies1[fromTerritoryId].infantry >= -MaxDeficit
            /\ occupyingPlayer' = owner1
            /\ armies' = armies1
            /\ playerTerritories' = terr2
            /\ eliminated' = elim2
            /\ playerCards' = cards2
            /\ gameOver' = end.over
            /\ winner' = end.winner
            /\ victoryType' = end.victoryType
            /\ victoryProgress' = end.progress
            /\ pendingConquest' = << >>
            /\ result' = [NoResult EXCEPT !.op = "resolveConquest",
                            !.success = TRUE,
                            !.defenderEliminated = elim2[defenderId]]
            /\ UNCHANGED <<cardDeck, discardPile, currentPlayerIndex, phase, turn,
                           cardAwarded, remainingReinforcements, conquestAttacker>>

\* ------------------------------------------------------------- end phase
\* handleEndPhase for the player playerId
handleEndPhase(playerId) ==
  /\ ~gameOver
  /\ getCurrentPlayer = playerId
  /\
    LET award == phase = "attack" /\ cardAwarded
        draw  == award /\ Len(cardDeck) > 0
    IN  /\ cardDeck' = (IF draw THEN SubSeq(cardDeck, 1, Len(cardDeck) - 1)
                        ELSE cardDeck)
        /\ playerCards' = (IF draw
                           THEN [playerCards EXCEPT ![playerId] =
                                   Append(@, cardDeck[Len(cardDeck)])]
                           ELSE playerCards)
        /\ nextPhase(IF award THEN FALSE ELSE cardAwarded)
        /\ result' = [NoResult EXCEPT !.op = "endPhase", !.success = TRUE]
        /\ UNCHANGED <<occupyingPlayer, armies, playerTerritories, eliminated,
                       discardPile, victoryType, pendingConquest,
                       remainingReinforcements, conquestAttacker>>

\* --------------------------------------------------------- reinforcement
RECURSIVE SumBonus(_, _)
SumBonus(cs, owned) ==
  IF cs = {} THEN 0
  ELSE LET c == CHOOSE x \in cs : TRUE
       IN  (IF c.territories \subseteq owned THEN c.bonusArmies ELSE 0)
           + SumBonus(cs \ {c}, owned)

\* getReinforcementArmies without the minimum of 3
getReinforcementArmiesNoMinimum(playerId) ==
  (Len(playerTerritories[playerId]) \div 3)
  + SumBonus(Continents,
             {playerTerritories[playerId][i] : i \in 1..Len(playerTerritories[playerId])})

\* Player.getReinforcementArmies
getReinforcementArmies(playerId) ==
  Max(3, Len(playerTerritories[playerId]) \div 3)
  + SumBonus(Continents,
             {playerTerritories[playerId][i] : i \in 1..Len(playerTerritories[playerId])})

\* handlePlaceArmies for the player playerId
handlePlaceArmies(playerId, territoryId, armyCount) ==
  /\ ~gameOver
  /\ getCurrentPlayer = playerId
  /\ phase = "reinforcement"
  /\
    LET remaining == IF remainingReinforcements = << >>
                     THEN getReinforcementArmies(playerId)
                     ELSE remainingReinforcements[1]
    IN
    IF armyCount > remaining
    THEN /\ remainingReinforcements' = <<remaining>>
         /\ result' = Failure("placeReinforcements")
         /\ UNCHANGED <<occupyingPlayer, armies, playerTerritories, playerCards,
                        eliminated, cardDeck, discardPile, currentPlayerIndex,
                        phase, turn, gameOver, winner, victoryType,
                        pendingConquest, cardAwarded, conquestAttacker>>
    ELSE IF occupyingPlayer[territoryId] # playerId
    THEN /\ remainingReinforcements' = <<remaining>>
         /\ result' = Failure("placeReinforcements")
         /\ UNCHANGED <<occupyingPlayer, armies, playerTerritories, playerCards,
                        eliminated, cardDeck, discardPile, currentPlayerIndex,
                        phase, turn, gameOver, winner, victoryType,
                        pendingConquest, cardAwarded, conquestAttacker>>
    ELSE
      /\ getTotalArmies(armies[territoryId]) + armyCount <= MaxArmies
      /\ armies' = [armies EXCEPT ![territoryId].infantry = @ + armyCount]
      /\ remainingReinforcements' = <<remaining - armyCount>>
      /\ IF remaining - armyCount <= 0
         THEN nextPhase(cardAwarded)
         ELSE UNCHANGED <<phase, cardAwarded, currentPlayerIndex, gameOver,
                          winner, turn>>
      /\ result' = [NoResult EXCEPT !.op = "placeReinforcements",
                      !.success = TRUE]
      /\ UNCHANGED <<occupyingPlayer, playerTerritories, playerCards, eliminated,
                     cardDeck, discardPile, victoryType, pendingConquest,
                     conquestAttacker>>

\* processReinforcement: the loop over Object.entries(reinforcements);
\* reinforcements is a list of <<territoryId, count>>; returns [armies, ok]
RECURSIVE applyReinforcements(_, _, _, _)
applyReinforcements(a, reinforcements, i, playerId) ==
  IF i > Len(reinforcements) THEN [armies |-> a, ok |-> TRUE]
  ELSE LET territoryId == reinforcements[i][1]
           count == reinforcements[i][2]
       IN  IF occupyingPlayer[territoryId] # playerId
           THEN [armies |-> a, ok |-> FALSE]
           ELSE applyReinforcements(
                  [a EXCEPT ![territoryId].infantry = @ + count],
                  reinforcements, i + 1, playerId)

RECURSIVE totalReinforcements(_, _)
totalReinforcements(reinforcements, i) ==
  IF i > Len(reinforcements) THEN 0
  ELSE reinforcements[i][2] + totalReinforcements(reinforcements, i + 1)

processReinforcement(playerId, reinforcements) ==
  IF getCurrentPlayer # playerId \/ phase # "reinforcement"
  THEN /\ result' = Failure("processReinforcement")
       /\ UNCHANGED gameVars
       /\ UNCHANGED conquestAttacker
  ELSE IF totalReinforcements(reinforcements, 1) > getReinforcementArmies(playerId)
  THEN /\ result' = Failure("processReinforcement")
       /\ UNCHANGED gameVars
       /\ UNCHANGED conquestAttacker
  ELSE
    LET r == applyReinforcements(armies, reinforcements, 1, playerId) IN
    /\ \A t \in Territories : getTotalArmies(r.armies[t]) <= Max(MaxArmies, getTotalArmies(armies[t]))
    /\ armies' = r.armies
    /\ IF r.ok
       THEN /\ nextPhase(cardAwarded)
            /\ result' = [NoResult EXCEPT !.op = "processReinforcement",
                            !.success = TRUE]
       ELSE /\ result' = Failure("processReinforcement")
            /\ UNCHANGED <<phase, cardAwarded, currentPlayerIndex, gameOver,
                           winner, turn>>
    /\ UNCHANGED <<occupyingPlayer, playerTerritories, playerCards, eliminated,
                   cardDeck, discardPile, victoryType, pendingConquest,
                   remainingReinforcements, conquestAttacker>>

\* ---------------------------------------------------------- fortification
Ceil(n, d) == (n + d - 1) \div d

\* EventsManager.getMovementModifiers: the rangeModifier values of the active
\* movement events that target the player; the catalogue has one movement
\* event, improved-logistics, with rangeModifier 1
getMovementModifiers(playerId) ==
  Len(SelectSeq(activeEvents,
                LAMBDA e : e.id = "improved-logistics" /\ e.targetPlayerId = playerId))

\* the unit transfer of processFortification: [from, to] after the move
moveUnits(f, t, armyCount) ==
  LET infantryToMove == Min(f.infantry, armyCount)
      inf            == IF infantryToMove > 0 THEN infantryToMove ELSE 0
      rem1           == armyCount - inf
      cavalryToMove  == IF rem1 > 0 THEN Min(f.cavalry, Ceil(rem1, 3)) ELSE 0
      cav            == IF cavalryToMove > 0 THEN cavalryToMove ELSE 0
      rem2           == rem1 - cav * 3
      artilleryToMove == IF rem2 > 0 THEN Min(f.artillery, Ceil(rem2, 5)) ELSE 0
      art            == IF artilleryToMove > 0 THEN artilleryToMove ELSE 0
  IN  [from |-> [infantry |-> f.infantry - inf, cavalry |-> f.cavalry - cav,
                 artillery |-> f.artillery - art],
       to   |-> [infantry |-> t.infantry + inf, cavalry |-> t.cavalry + cav,
                 artillery |-> t.artillery + art]]

fortificationError(playerId, fromTerritoryId, toTerritoryId, armyCount) ==
  IF getCurrentPlayer # playerId \/ phase # "fortification"
  THEN "false"
  ELSE IF occupyingPlayer[fromTerritoryId] # playerId
          \/ occupyingPlayer[toTerritoryId] # playerId
  THEN "false"
  ELSE IF 1 + getMovementModifiers(playerId) = 1
          /\ ~isAdjacentTo(fromTerritoryId, toTerritoryId)
  THEN "false"
  ELSE IF getTotalArmies(armies[fromTerritoryId]) <= armyCount
  THEN "false"
  ELSE ""

processFortification(playerId, fromTerritoryId, toTerritoryId, armyCount) ==
  LET error == fortificationError(playerId, fromTerritoryId, toTerritoryId, armyCount) IN
  IF error # ""
  THEN /\ result' = Failure("fortify")
       /\ UNCHANGED gameVars
       /\ UNCHANGED conquestAttacker
  ELSE
    LET m == moveUnits(armies[fromTerritoryId], armies[toTerritoryId], armyCount) IN
    /\ armies' = [armies EXCEPT ![fromTerritoryId] = m.from, ![toTerritoryId] = m.to]
    /\ nextPhase(cardAwarded)
    /\ result' = [NoResult EXCEPT !.op = "fortify", !.success = TRUE]
    /\ UNCHANGED <<occupyingPlayer, playerTerritories, playerCards, eliminated,
                   cardDeck, discardPile, victoryType, pendingConquest,
                   remainingReinforcements, conquestAttacker>>

\* ------------------------------------------------------------------ cards
CardIds == <<"card-t1", "card-t2", "card-t3", "wild-1", "wild-2">>
Cards == {CardIds[i] : i \in 1..Len(CardIds)}

\* createCardDeck: types[index % 3] for the territory cards, two wild cards
cardType(c) ==
  CASE c = "card-t1" -> "infantry"
    [] c = "card-t2" -> "cavalry"
    [] c = "card-t3" -> "artillery"
    [] OTHER         -> "wild"

cardTerritory(c) ==
  CASE c = "card-t1" -> "t1"
    [] c = "card-t2" -> "t2"
    [] c = "card-t3" -> "t3"
    [] OTHER         -> "null"

CountType(cards, type) ==
  Cardinality({i \in 1..Len(cards) : cardType(cards[i]) = type})

isValidCardSetNoWild(cards) ==
  IF Len(cards) # 3 THEN FALSE
  ELSE
    LET wildCount == CountType(cards, "wild")
        counts == {CountType(cards, ty) :
                     ty \in {cardType(cards[i]) : i \in 1..Len(cards)}}
        sameTypeCount == CHOOSE n \in counts : \A m \in counts : m <= n
        uniqueTypes == Cardinality({cardType(cards[i]) : i \in 1..Len(cards)}
                                     \ {"wild"})
    IN  \/ Min(sameTypeCount, 3) + wildCount >= 3
        \/ uniqueTypes >= 3

isValidCardSet(cards) ==
  IF Len(cards) # 3 THEN FALSE
  ELSE
    LET wildCount == CountType(cards, "wild")
        counts == {CountType(cards, ty) :
                     ty \in {cardType(cards[i]) : i \in 1..Len(cards)}}
        sameTypeCount == CHOOSE n \in counts : \A m \in counts : m <= n
        uniqueTypes == Cardinality({cardType(cards[i]) : i \in 1..Len(cards)}
                                     \ {"wild"})
    IN  \/ Min(sameTypeCount, 3) + wildCount >= 3
        \/ uniqueTypes + wildCount >= 3

calculateArmiesForSet(setNumber) ==
  CASE setNumber = 1 -> 4
    [] setNumber = 2 -> 6
    [] setNumber = 3 -> 8
    [] setNumber = 4 -> 10
    [] setNumber = 5 -> 12
    [] setNumber = 6 -> 15
    [] OTHER         -> 15 + (setNumber - 6) * 5

\* number of 'card-trade' entries of the event log, plus one
calculateSetNumber ==
  Len(SelectSeq(eventLog, LAMBDA type : type = "card-trade")) + 1

territoryBonus(playerId, cards) ==
  2 * Cardinality({i \in 1..Len(cards) :
                     /\ cardTerritory(cards[i]) \in Territories
                     /\ occupyingPlayer[cardTerritory(cards[i])] = playerId})

cardTradeError(playerId, cardIds) ==
  IF eliminated[playerId] THEN "Invalid player"
  ELSE IF getCurrentPlayer # playerId \/ phase # "reinforcement"
  THEN "Can only trade cards during your reinforcement phase"
  ELSE IF (\E i \in 1..Len(cardIds) : ~Includes(playerCards[playerId], cardIds[i]))
          \/ Len(cardIds) # 3
  THEN "Invalid cards"
  ELSE IF ~isValidCardSet(cardIds) THEN "Invalid card set"
  ELSE ""

processCardTrade(playerId, cardIds) ==
  LET error == cardTradeError(playerId, cardIds) IN
  IF error # ""
  THEN /\ result' = Failure("tradeCards")
       /\ UNCHANGED gameVars
       /\ UNCHANGED <<conquestAttacker, eventLog>>
  ELSE
    /\ playerCards' = [playerCards EXCEPT ![playerId] =
                         SelectSeq(@, LAMBDA c : ~Includes(cardIds, c))]
    /\ discardPile' = discardPile \o cardIds
    /\ eventLog' = Append(eventLog, "card-trade")
    /\ result' = [NoResult EXCEPT !.op = "tradeCards", !.success = TRUE,
                    !.armies = calculateArmiesForSet(calculateSetNumber)
                                 + territoryBonus(playerId, cardIds),
                    !.setNumber = calculateSetNumber]
    /\ UNCHANGED <<occupyingPlayer, armies, playerTerritories, eliminated,
                   cardDeck, currentPlayerIndex, phase, turn, gameOver, winner,
                   victoryType, pendingConquest, cardAwarded,
                   remainingReinforcements, conquestAttacker>>

\* ----------------------------------------------------------------- events
\* entries of the event catalog that touch armies, ownership or cards, with
\* their effect values; the territory threshold of the major rebellion (the
\* one entry that can cost a territory) is scaled to the three-territory map
EventEffects ==
  { [type |-> "militia-formed", maxOccurrences |-> 5,
     effectType |-> "armies", armyEffect |-> 1, rebellionStrength |-> 0,
     territoryLostOnRebellion |-> FALSE, cardEffect |-> 0, minTerritories |-> 0],
    [type |-> "disease-outbreak", maxOccurrences |-> 3,
     effectType |-> "armies", armyEffect |-> -2, rebellionStrength |-> 0,
     territoryLostOnRebellion |-> FALSE, cardEffect |-> 0, minTerritories |-> 0],
    [type |-> "minor-rebellion", maxOccurrences |-> 3,
     effectType |-> "rebellion", armyEffect |-> 0, rebellionStrength |-> 2,
     territoryLostOnRebellion |-> FALSE, cardEffect |-> 0, minTerritories |-> 0],
    [type |-> "major-rebellion", maxOccurrences |-> 1,
     effectType |-> "rebellion", armyEffect |-> 0, rebellionStrength |-> 5,
     territoryLostOnRebellion |-> TRUE, cardEffect |-> 0, minTerritories |-> 2],
    [type |-> "intelligence-report", maxOccurrences |-> 2,
     effectType |-> "card", armyEffect |-> 0, rebellionStrength |-> 0,
     territoryLostOnRebellion |-> FALSE, cardEffect |-> 1, minTerritories |-> 0],
    [type |-> "intelligence-leak", maxOccurrences |-> 1,
     effectType |-> "card", armyEffect |-> 0, rebellionStrength |-> 0,
     territoryLostOnRebellion |-> FALSE, cardEffect |-> -1, minTerritories |-> 0] }

\* the entries of eventHistory with the type of the event
timesTriggered(type) ==
  Len(SelectSeq(eventHistory, LAMBDA h : h.type = type))

\* an entry of eventHistory
HistoryEntry(type, expired) == [type |-> type, expired |-> expired]

\* checkEventConditions: conditions.minTerritories against the list length
checkEventConditions(e, playerId) ==
  ~(e.minTerritories > 0 /\ Len(playerTerritories[playerId]) < e.minTerritories)

\* the filter that builds potentialEvents in checkForEvent: the event type
\* has fewer than maxOccurrences entries in eventHistory (maxOccurrences 0
\* stands for an event without the field) and its conditions hold
isPotentialEvent(e, playerId) ==
  /\ ~(e.maxOccurrences # 0 /\ timesTriggered(e.type) >= e.maxOccurrences)
  /\ checkEventConditions(e, playerId)

\* prepareEvent: the target is playerId, one affected territory is drawn from
\* the target's territory list (none if the list is empty)
prepareEvent(e, playerId) ==
  { [effect |-> e, targetPlayerId |-> playerId, affectedTerritories |-> aff] :
      aff \in IF Len(playerTerritories[playerId]) = 0 THEN { << >> }
              ELSE { <<playerTerritories[playerId][i]>> :
                       i \in 1..Len(playerTerritories[playerId]) } }

\* case 'armies': infantry += armyEffect, clamped at 0
RECURSIVE armiesEffect(_, _, _, _)
armiesEffect(a, aff, i, armyEffect) ==
  IF i > Len(aff) THEN a
  ELSE armiesEffect([a EXCEPT ![aff[i]].infantry = Max(0, @ + armyEffect)],
                    aff, i + 1, armyEffect)

\* the rebellion that costs the territory whatever the event says
rebellionEffectAlwaysLost(event, territoryId, rebels) ==
  LET reduced == [armies[territoryId] EXCEPT
                    !.infantry = Max(0, @ - event.effect.rebellionStrength)]
      lost    == getTotalArmies(reduced) = 0
  IN  /\ armies' = [armies EXCEPT ![territoryId] =
                      IF lost THEN [reduced EXCEPT !.infantry = rebels] ELSE reduced]
      /\ occupyingPlayer' = (IF lost
                             THEN [occupyingPlayer EXCEPT ![territoryId] = NoPlayer]
                             ELSE occupyingPlayer)
      /\ playerTerritories' =
           (IF lost
            THEN [playerTerritories EXCEPT ![event.targetPlayerId] =
                    SelectSeq(@, LAMBDA id : id # territoryId)]
            ELSE playerTerritories)

\* case 'rebellion' for one territory; rebels is the Math.random draw (1..3)
rebellionEffect(event, territoryId, rebels) ==
  LET reduced == [armies[territoryId] EXCEPT
                    !.infantry = Max(0, @ - event.effect.rebellionStrength)]
      lost    == getTotalArmies(reduced) = 0 /\ event.effect.territoryLostOnRebellion
  IN  /\ armies' = [armies EXCEPT ![territoryId] =
                      IF lost THEN [reduced EXCEPT !.infantry = rebels] ELSE reduced]
      /\ occupyingPlayer' = (IF lost
                             THEN [occupyingPlayer EXCEPT ![territoryId] = NoPlayer]
                             ELSE occupyingPlayer)
      /\ playerTerritories' =
           (IF lost
            THEN [playerTerritories EXCEPT ![event.targetPlayerId] =
                    SelectSeq(@, LAMBDA id : id # territoryId)]
            ELSE playerTerritories)

\* the switch of EventsManager.applyEventEffects for a prepared event
eventEffects(event) ==
  LET player == event.targetPlayerId
      aff    == event.affectedTerritories
  IN
  /\ CASE event.effect.effectType = "armies" ->
            /\ armies' = armiesEffect(armies, aff, 1, event.effect.armyEffect)
            /\ \A t \in Territories : getTotalArmies(armies'[t]) <= Max(MaxArmies, getTotalArmies(armies[t]))
            /\ UNCHANGED <<occupyingPlayer, playerTerritories, playerCards,
                           cardDeck, discardPile>>
       [] event.effect.effectType = "rebellion" ->
            /\ IF Len(aff) = 0
               THEN UNCHANGED <<armies, occupyingPlayer, playerTerritories>>
               ELSE \E rebels \in 1..3 : rebellionEffect(event, aff[1], rebels)
            /\ UNCHANGED <<playerCards, cardDeck, discardPile>>
       [] event.effect.effectType = "card" /\ event.effect.cardEffect > 0 ->
            /\ IF Len(cardDeck) > 0
               THEN /\ cardDeck' = SubSeq(cardDeck, 1, Len(cardDeck) - 1)
                    /\ playerCards' = [playerCards EXCEPT ![player] =
                                         Append(@, cardDeck[Len(cardDeck)])]
               ELSE UNCHANGED <<cardDeck, playerCards>>
            /\ UNCHANGED <<armies, occupyingPlayer, playerTerritories, discardPile>>
       [] event.effect.effectType = "card" /\ event.effect.cardEffect < 0 ->
            /\ IF Len(playerCards[player]) > 0
               THEN \E randomIndex \in 1..Len(playerCards[player]) :
                      /\ playerCards' = [playerCards EXCEPT ![player] =
                                           RemoveAt(@, randomIndex)]
                      /\ discardPile' = Append(discardPile,
                                               playerCards[player][randomIndex])
               ELSE UNCHANGED <<playerCards, discardPile>>
            /\ UNCHANGED <<armies, occupyingPlayer, playerTerritories, cardDeck>>
  /\ UNCHANGED <<eliminated, currentPlayerIndex, phase, turn, gameOver, winner,
                 victoryType, pendingConquest, cardAwarded,
                 remainingReinforcements, conquestAttacker>>

\* EventsManager.applyEventEffects for a prepared event
applyEventEffects(event) ==
  /\ eventEffects(event)
  /\ result' = [NoResult EXCEPT !.op = "event", !.success = TRUE]

\* checkForEvent as driven at the start of a reinforcement phase: the random
\* draws (probability, catalog entry, territory) are the choice of event
checkForEvent(playerId) ==
  /\ enableEvents
  /\ ~gameOver
  /\ phase = "reinforcement"
  /\ playerId = getCurrentPlayer
  /\ ~eliminated[playerId]
  /\ Len(eventHistory) < MaxEvents
  /\ \E e \in {x \in EventEffects : isPotentialEvent(x, playerId)} :
       /\ \E event \in prepareEvent(e, playerId) : applyEventEffects(event)
       /\ eventHistory' = Append(eventHistory, HistoryEntry(e.type, FALSE))

\* ------------------------------------------------------------ save / load
\* GameState.serialize: the fields written to the save
serialize ==
  [players |-> [p \in Players |->
                  [territories |-> playerTerritories[p],
                   cards       |-> playerCards[p],
                   eliminated  |-> eliminated[p]]],
   territories |-> [t \in Territories |->
                      [occupyingPlayer |-> occupyingPlayer[t],
                       armies          |-> armies[t]]],
   cardDeck |-> cardDeck,
   discardPile |-> discardPile,
   currentPlayerIndex |-> currentPlayerIndex,
   phase |-> phase,
   turn |-> turn,
   gameOver |-> gameOver,
   winner |-> winner,
   victoryType |-> victoryType,
   eventLog |-> eventLog,
   cardAwarded |-> cardAwarded]

\* GameState.deserialize: a new GameState filled from the save; fields the
\* save does not carry keep the constructor's value
deserialize(data) ==
  [occupyingPlayer |-> [t \in Territories |-> data.territories[t].occupyingPlayer],
   armies |-> [t \in Territories |-> data.territories[t].armies],
   playerTerritories |-> [p \in Players |-> data.players[p].territories],
   playerCards |-> [p \in Players |-> data.players[p].cards],
   eliminated |-> [p \in Players |-> data.players[p].eliminated],
   cardDeck |-> data.cardDeck,
   discardPile |-> data.discardPile,
   currentPlayerIndex |-> data.currentPlayerIndex,
   phase |-> data.phase,
   turn |-> data.turn,
   gameOver |-> data.gameOver,
   winner |-> data.winner,
   victoryType |-> data.victoryType,
   eventLog |-> data.eventLog,
   cardAwarded |-> data.cardAwarded,
   pendingConquest |-> << >>,
   remainingReinforcements |-> << >>]

\* save followed by load: the game continues on deserialize(serialize())
loadGame ==
  LET g == deserialize(serialize) IN
  /\ occupyingPlayer' = g.occupyingPlayer
  /\ armies' = g.armies
  /\ playerTerritories' = g.playerTerritories
  /\ playerCards' = g.playerCards
  /\ eliminated' = g.eliminated
  /\ cardDeck' = g.cardDeck
  /\ discardPile' = g.discardPile
  /\ currentPlayerIndex' = g.currentPlayerIndex
  /\ phase' = g.phase
  /\ turn' = g.turn
  /\ gameOver' = g.gameOver
  /\ winner' = g.winner
  /\ victoryType' = g.victoryType
  /\ eventLog' = g.eventLog
  /\ cardAwarded' = g.cardAwarded
  /\ pendingConquest' = g.pendingConquest
  /\ remainingReinforcements' = g.remainingReinforcements
  /\ UNCHANGED <<eventHistory, enableEvents, reversals, victoryProgress, features, featuresBefore, researchVars>>
  /\ activeEvents' = << >>
  /\ result' = [NoResult EXCEPT !.op = "loadGame", !.success = TRUE]
  /\ UNCHANGED conquestAttacker

\* ------------------------------------------------------------ positions
\* The game is explored from three positions.
\*  round:   p2 has been eliminated, p1 is to move and holds t1 and t2,
\*           p3 holds t3 and one card, infantry only, world events
\*           switched off (config.enableEvents);
\*  cards:   p2 has been eliminated, p3 is to move and holds t1 (garrisoned
\*           with cavalry), t2 and a hand of three cards, p1 holds t3 and one
\*           card, world events off;
\*  events:  as cards, but p3 holds two cards and world events are on.
RoundPosition ==
  [owner  |-> [t \in Territories |->
                 CASE t = "t1" -> "p1" [] t = "t2" -> "p1" [] t = "t3" -> "p3"],
   armies |-> [t \in Territories |->
                 CASE t = "t1" -> Units(3, 0, 0)
                   [] t = "t2" -> Units(1, 0, 0)
                   [] t = "t3" -> Units(1, 0, 0)],
   cards  |-> [p \in Players |-> IF p = "p3" THEN <<"card-t3">> ELSE << >>],
   deck   |-> <<"card-t1", "wild-1", "card-t2", "wild-2">>,
   out    |-> {"p2"},
   index  |-> 0,
   events |-> FALSE]

CardsPosition ==
  [owner  |-> [t \in Territories |->
                 CASE t = "t1" -> "p3" [] t = "t2" -> "p3" [] t = "t3" -> "p1"],
   armies |-> [t \in Territories |->
                 CASE t = "t1" -> Units(1, 1, 0)
                   [] t = "t2" -> Units(2, 0, 0)
                   [] t = "t3" -> Units(1, 0, 0)],
   cards  |-> [p \in Players |->
                 CASE p = "p1" -> <<"card-t3">>
                   [] p = "p2" -> << >>
                   [] p = "p3" -> <<"card-t1", "card-t2", "wild-1">>],
   deck   |-> <<"wild-2">>,
   out    |-> {"p2"},
   index  |-> 2,
   events |-> FALSE]

EventsPosition ==
  [CardsPosition EXCEPT
     !.cards = [p \in Players |->
                  CASE p = "p1" -> <<"card-t3">>
                    [] p = "p2" -> << >>
                    [] p = "p3" -> <<"card-t1", "card-t2">>],
     !.deck = <<"wild-2", "wild-1">>,
     !.events = TRUE]

Positions == {RoundPosition, CardsPosition, EventsPosition}

Init ==
  /\ \E pos \in Positions :
       /\ occupyingPlayer = pos.owner
       /\ armies = pos.armies
       /\ playerTerritories =
            [p \in Players |-> SelectSeq(TerritoryIds, LAMBDA t : pos.owner[t] = p)]
       /\ eliminated = [p \in Players |-> p \in pos.out]
       /\ playerCards = pos.cards
       /\ cardDeck = pos.deck
       /\ currentPlayerIndex = pos.index
       /\ enableEvents = pos.events
  /\ discardPile = << >>
  /\ phase = "reinforcement"
  /\ turn = 1
  /\ gameOver = FALSE
  /\ winner = NoPlayer
  /\ victoryType = ""
  /\ pendingConquest = << >>
  /\ cardAwarded = FALSE
  /\ remainingReinforcements = << >>
  /\ eventLog = << >>
  /\ eventHistory = << >>
  /\ activeEvents = << >>
  /\ reversals = << >>
  /\ victoryProgress = [p \in Players |-> 0]
  /\ features = NoFeatures
  /\ featuresBefore = NoFeatures
  /\ technologies = [p \in Players |-> << >>]
  /\ researchPoints = [p \in Players |-> 0]
  /\ researchProgress = NoResearch
  /\ conquestAttacker = NoPlayer
  /\ result = NoResult

\* ------------------------------------------------------------ call inputs
DiceCounts == 1..4
ArmyCounts == 0..MaxArmies

\* reinforcement requests: one territory, or two territories in order
ReinforcementRequests ==
  { << <<t, 3>> >> : t \in Territories }
  \cup
  { << <<e[1], 1>>, <<e[2], 1>> >> :
      e \in { x \in Territories \X Territories : x[1] # x[2] } }
  \cup
  { << <<"t1", 3>>, <<"t2", 3>> >> }

\* card id lists offered to a trade: three distinct ids, one id three times,
\* one card of each type, and a list of two ids
TradeRequests ==
  { <<"card-t1", "card-t2", "wild-1">>,
    <<"card-t1", "card-t1", "card-t1">>,
    <<"card-t1", "card-t2", "card-t3">>,
    <<"card-t1", "card-t2">> }

\* A call made out of turn is explored with one representative argument list.
Attack ==
  /\ \E playerId \in Players, fromTerritoryId \in Territories,
        toTerritoryId \in Territories, attackDice \in DiceCounts :
       /\ playerId # getCurrentPlayer =>
            <<fromTerritoryId, toTerritoryId, attackDice>> = <<"t1", "t2", 1>>
       /\ processAttack(playerId, fromTerritoryId, toTerritoryId, attackDice)
  /\ UNCHANGED <<eventLog, eventHistory, enableEvents, activeEvents, reversals, victoryProgress, features, featuresBefore, researchVars>>

ResolveConquest ==
  /\ \E playerId \in Players, armyCount \in ArmyCounts :
       /\ playerId # getCurrentPlayer => armyCount = 1
       /\ completeConquest(playerId, armyCount)
  /\ UNCHANGED <<eventLog, eventHistory, enableEvents, activeEvents, reversals,
                 features, featuresBefore, researchVars>>

\* GameState.calculateResourceProduction for the player playerId: the research
\* points gained from the research centres of the player's territories (the
\* territories of the model map have no resources of their own)
calculateResourceProduction(playerId) ==
  IF eliminated'[playerId] THEN researchPoints
  ELSE [researchPoints EXCEPT ![playerId] =
          @ + Len(SelectSeq(playerTerritories'[playerId],
                            LAMBDA id : features[id]["hasResearchCenter"]))]

\* the last step of nextPhase's fortification branch, for the handlers that
\* call nextPhase: the new current player collects the production
nextPhaseResources ==
  researchPoints' =
    IF phase = "fortification" /\ phase' = "reinforcement"
    THEN calculateResourceProduction(PlayerIds[currentPlayerIndex' + 1])
    ELSE researchPoints

EndPhase ==
  /\ \E playerId \in Players : handleEndPhase(playerId)
  /\ nextPhaseResources
  /\ UNCHANGED <<eventLog, eventHistory, enableEvents, activeEvents, reversals,
                 victoryProgress, features, featuresBefore, technologies,
                 researchProgress>>

PlaceArmies ==
  /\ \E playerId \in Players, territoryId \in Territories, armyCount \in {1, 3} :
       handlePlaceArmies(playerId, territoryId, armyCount)
  /\ nextPhaseResources
  /\ UNCHANGED <<eventLog, eventHistory, enableEvents, activeEvents, reversals,
                 victoryProgress, features, featuresBefore, technologies,
                 researchProgress>>

Reinforce ==
  /\ \E playerId \in Players, reinforcements \in ReinforcementRequests :
       /\ playerId # getCurrentPlayer => reinforcements = << <<"t1", 1>> >>
       /\ processReinforcement(playerId, reinforcements)
  /\ nextPhaseResources
  /\ UNCHANGED <<eventLog, eventHistory, enableEvents, activeEvents, reversals,
                 victoryProgress, features, featuresBefore, technologies,
                 researchProgress>>

Fortify ==
  /\ \E playerId \in Players, fromTerritoryId \in Territories,
        toTerritoryId \in Territories, armyCount \in ArmyCounts :
       /\ playerId # getCurrentPlayer =>
            <<fromTerritoryId, toTerritoryId, armyCount>> = <<"t1", "t2", 1>>
       /\ processFortification(playerId, fromTerritoryId, toTerritoryId, armyCount)
  /\ nextPhaseResources
  /\ UNCHANGED <<eventLog, eventHistory, enableEvents, activeEvents, reversals,
                 victoryProgress, features, featuresBefore, technologies,
                 researchProgress>>

TradeCards ==
  /\ \E playerId \in Players, cardIds \in TradeRequests :
       /\ playerId # getCurrentPlayer => cardIds = <<"card-t1", "card-t2", "wild-1">>
       /\ processCardTrade(playerId, cardIds)
  /\ UNCHANGED <<eventHistory, enableEvents, activeEvents, reversals, victoryProgress, features, featuresBefore, researchVars>>

WorldEvent ==
  /\ \E playerId \in Players : checkForEvent(playerId)
  /\ UNCHANGED <<eventLog, enableEvents, activeEvents, reversals, victoryProgress, features, featuresBefore, researchVars>>

LoadGame == loadGame

Next ==
  \/ Attack
  \/ ResolveConquest
  \/ EndPhase
  \/ PlaceArmies
  \/ Reinforce
  \/ Fortify
  \/ TradeCards
  \/ WorldEvent
  \/ LoadGame

Spec == Init /\ [][Next]_vars

\* ================================================================ claims

\* the state a rejected call must leave untouched: unit counts and owner of
\* every territory, territory lists, hands, deck, discard pile, phase,
\* current player, turn and pending conquest
claimState == <<armies, occupyingPlayer, playerTerritories, playerCards, cardDeck,
                discardPile, phase, currentPlayerIndex, turn, pendingConquest>>

\* C1: while a pending conquest is outstanding no attack is accepted: every
\* attack call made then is rejected and leaves the game state, the pending
\* record included, as it was.
C1_AttackRejectedWhilePending ==
  [][pendingConquest # << >>
       => ~(result'.op = "attack" /\ result'.success)]_vars

\* C2: a call that reports failure (attack, resolveConquest, fortify,
\* tradeCards, placeReinforcements) leaves unit counts, owners, territory
\* lists, hands, deck, discard pile, phase, current player, turn and pending
\* conquest exactly as they were, also when a reinforcement request names
\* several territories and only a later one is invalid.
C2_FailureChangesNothing ==
  [][(result'.op = "rejected" /\ ~result'.exception)
       => UNCHANGED claimState]_vars

\* C3: resolveConquest succeeds only while a pending conquest exists and only
\* for the player whose attack opened it (a successful call is always made by
\* the current player, so the current player must be that attacker).
C3_OnlyAttackerResolves ==
  [][(result'.op = "resolveConquest" /\ result'.success)
       => (pendingConquest # << >> /\ getCurrentPlayer = conquestAttacker)]_vars

\* C4: with a pending conquest open, resolveConquest accepts exactly the army
\* counts in minArmies..maxArmies of the pending record: an accepted count
\* lies in the range and garrisons the conquered territory, a count outside
\* the range is rejected with the range echoed back and nothing changed, and
\* no call with a count inside the range ends without being accepted.
C4_ConquestArmyRange ==
  [][/\ (result'.op = "resolveConquest" /\ result'.success)
          => /\ pendingConquest # << >>
             /\ armies'[pendingConquest[1].toTerritoryId].infantry
                  \in pendingConquest[1].minArmies..pendingConquest[1].maxArmies
     /\ (result'.op = "rejected" /\ result'.minArmies # 0)
          => /\ pendingConquest # << >>
             /\ result'.minArmies = pendingConquest[1].minArmies
             /\ result'.maxArmies = pendingConquest[1].maxArmies
             /\ UNCHANGED claimState
     /\ ~result'.exception]_vars

\* army value of the whole map
RECURSIVE SumArmies(_, _)
SumArmies(a, ts) ==
  IF ts = {} THEN 0
  ELSE LET t == CHOOSE x \in ts : TRUE
       IN  getTotalArmies(a[t]) + SumArmies(a, ts \ {t})

\* C5: a successful attack or fortification conserves army value: the value
\* of the two territories before the action equals their value after it plus
\* the reported casualties (none for a fortification); no other territory
\* changes, so the sums are taken over the map.
C5_ArmyValueConserved ==
  [][(result'.success /\ result'.op \in {"attack", "fortify"})
       => SumArmies(armies, Territories)
            = SumArmies(armies', Territories)
              + result'.attackerLosses + result'.defenderLosses]_vars

\* C6: in every reachable state the infantry, cavalry and artillery counts
\* of every territory are non-negative.
C6_UnitCountsNonNegative ==
  \A t \in Territories :
    /\ armies[t].infantry >= 0
    /\ armies[t].cavalry >= 0
    /\ armies[t].artillery >= 0

\* every place a card can be: the deck, the hands in roster order, the discard pile
allCardPlaces ==
  cardDeck \o playerCards["p1"] \o playerCards["p2"] \o playerCards["p3"] \o discardPile

\* C7: in every reachable state every card of the initial deck is in exactly
\* one of the deck, one player's hand or the discard pile: no card is lost
\* and none appears twice.
C7_CardsInExactlyOnePlace ==
  \A c \in Cards :
    Cardinality({i \in 1..Len(allCardPlaces) : allCardPlaces[i] = c}) = 1

\* C8: a player whose list of owned territories becomes empty is marked
\* eliminated in the same step; when the last territory was taken by a
\* conquest, every card the player held is afterwards in the hand of the
\* player who received the territory, and the eliminated player's hand is
\* empty.
C8_EliminationCascade ==
  [][\A p \in Players :
       (playerTerritories[p] # << >> /\ playerTerritories'[p] = << >>)
         => /\ eliminated'[p]
            /\ (result'.op = "resolveConquest" /\ pendingConquest # << >>)
                 => LET conqueror ==
                          occupyingPlayer'[pendingConquest[1].toTerritoryId]
                    IN  /\ \A i \in 1..Len(playerCards[p]) :
                             Includes(playerCards'[conqueror], playerCards[p][i])
                        /\ playerCards'[p] = << >>]_vars

\* C9: for every reachable state, deserialize(serialize(state)) has the same
\* owner and unit counts for every territory, the same phase, turn and
\* current player index, and the same pending conquest (present exactly when
\* it was present in the state, with equal fields).
C9_SerializeRoundTrip ==
  LET g == deserialize(serialize) IN
  /\ g.occupyingPlayer = occupyingPlayer
  /\ g.armies = armies
  /\ g.phase = phase
  /\ g.turn = turn
  /\ g.currentPlayerIndex = currentPlayerIndex
  /\ g.pendingConquest = pendingConquest

\* the next index in roster order, wrapping around, whose player is not eliminated
nextActiveIndex ==
  LET n == Len(PlayerIds)
      steps == {k \in 1..n : ~eliminated[PlayerIds[((currentPlayerIndex + k) % n) + 1]]}
  IN  (currentPlayerIndex + (CHOOSE k \in steps : \A j \in steps : k <= j)) % n

\* C10: the phase only changes reinforcement -> attack -> fortification ->
\* reinforcement; the current player changes only on the fortification ->
\* reinforcement step and then becomes the next player in roster order that
\* is not eliminated; the current player is never an eliminated player.
C10_PhaseAndPlayerOrder ==
  [][/\ phase' # phase
          => <<phase, phase'>> \in {<<"reinforcement", "attack">>,
                                     <<"attack", "fortification">>,
                                     <<"fortification", "reinforcement">>}
     /\ currentPlayerIndex' # currentPlayerIndex
          => /\ phase = "fortification" /\ phase' = "reinforcement"
             /\ currentPlayerIndex' = nextActiveIndex
     /\ ~eliminated'[PlayerIds[currentPlayerIndex' + 1]]]_vars

\* C11: once gameOver is true nothing changes the phase, the current player,
\* the turn counter or any territory, and every later endPhase,
\* placeReinforcements, attack, resolveConquest, fortify and tradeCards is
\* refused.
C11_NothingAfterGameOver ==
  [][gameOver
       => /\ UNCHANGED <<phase, currentPlayerIndex, turn, occupyingPlayer, armies>>
          /\ ~(result'.success
               /\ result'.op \in {"endPhase", "placeReinforcements",
                                  "processReinforcement", "attack",
                                  "resolveConquest", "fortify", "tradeCards"})]_vars

\* ------------------------------------------------------ rounds of turns
\* A game in which p1, the first player of the roster, has been eliminated
\* and p2 and p3 play on.
SurvivorsPosition ==
  [owner  |-> [t \in Territories |->
                 CASE t = "t1" -> "p2" [] t = "t2" -> "p2" [] t = "t3" -> "p3"],
   armies |-> [t \in Territories |->
                 CASE t = "t1" -> Units(2, 0, 0)
                   [] t = "t2" -> Units(1, 0, 0)
                   [] t = "t3" -> Units(2, 0, 0)],
   cards  |-> [p \in Players |-> << >>],
   deck   |-> <<"card-t1", "wild-1", "card-t2", "wild-2", "card-t3">>,
   out    |-> {"p1"},
   index  |-> 1,
   events |-> FALSE]

\* the board of a game that stands at position pos in phase ph, its
\* territories carrying the feature flags fs
StartBoard(pos, ph, fs) ==
  /\ occupyingPlayer = pos.owner
  /\ armies = pos.armies
  /\ playerTerritories =
       [p \in Players |-> SelectSeq(TerritoryIds, LAMBDA t : pos.owner[t] = p)]
  /\ eliminated = [p \in Players |-> p \in pos.out]
  /\ playerCards = pos.cards
  /\ cardDeck = pos.deck
  /\ currentPlayerIndex = pos.index
  /\ enableEvents = pos.events
  /\ discardPile = << >>
  /\ phase = ph
  /\ turn = 1
  /\ gameOver = FALSE
  /\ winner = NoPlayer
  /\ victoryType = ""
  /\ pendingConquest = << >>
  /\ cardAwarded = FALSE
  /\ remainingReinforcements = << >>
  /\ eventLog = << >>
  /\ eventHistory = << >>
  /\ activeEvents = << >>
  /\ reversals = << >>
  /\ victoryProgress = [p \in Players |-> 0]
  /\ features = fs
  /\ featuresBefore = NoFeatures
  /\ conquestAttacker = NoPlayer
  /\ result = NoResult

\* the state of a game that stands at position pos in phase ph, its
\* territories carrying the feature flags fs: no player has research points,
\* technologies or research under way
StartWith(pos, ph, fs) ==
  /\ StartBoard(pos, ph, fs)
  /\ technologies = [p \in Players |-> << >>]
  /\ researchPoints = [p \in Players |-> 0]
  /\ researchProgress = NoResearch

\* the state of a game that stands at position pos in phase ph
StartIn(pos, ph) == StartWith(pos, ph, NoFeatures)

StartFrom(pos) == StartIn(pos, "reinforcement")

InitRound == StartFrom(SurvivorsPosition)

\* the survivors reinforce and end their phases; no battle is fought
NextRound ==
  \/ EndPhase
  \/ Reinforce

SpecRound == InitRound /\ [][NextRound]_vars

\* C12: each time play has passed once through all surviving players, that
\* is each time the current player index wraps around in roster order while
\* the game goes on, the turn counter increases by exactly 1, and it does
\* not change on any other step, whichever players have been eliminated.
C12_TurnCountsRounds ==
  [][~gameOver'
       => IF phase = "fortification" /\ phase' = "reinforcement"
             /\ currentPlayerIndex' <= currentPlayerIndex
          THEN turn' = turn + 1
          ELSE turn' = turn]_vars

\* ------------------------------------------------- events with a duration
MaxEventTurn == 4

\* events that stay active: combat-morale and strategic-advantage of the
\* catalogue, and the reversible territory event of the events test
DurationEvents ==
  { [id |-> "combat-morale", type |-> "combat-morale",
     duration |-> 2, reverseOnExpire |-> FALSE,
     maxOccurrences |-> 3, minTerritories |-> 0,
     effectType |-> "combat", territoryEffect |-> NoTerritoryEffect],
    [id |-> "strategic-advantage", type |-> "strategic-advantage",
     duration |-> 1, reverseOnExpire |-> FALSE,
     maxOccurrences |-> 2, minTerritories |-> 0,
     effectType |-> "combat", territoryEffect |-> NoTerritoryEffect],
    [id |-> "test-reversible-event", type |-> "test-reversible-event",
     duration |-> 2, reverseOnExpire |-> TRUE,
     maxOccurrences |-> 0, minTerritories |-> 0,
     effectType |-> "territory",
     territoryEffect |-> [feature |-> "hasPort", value |-> TRUE]] }

\* the entries updateActiveEvents adds to eventHistory: { ...event,
\* expired: true } for every expired event
expiryEntries(expiredEvents) ==
  [i \in 1..Len(expiredEvents) |-> HistoryEntry(expiredEvents[i].type, TRUE)]

\* prepareEvent for an event with a duration: an event of territory scope
\* draws one territory of the target player (none if the list is empty)
affectedTerritoriesOf(event, playerId) ==
  IF event.effectType \in {"territory", "territories"}
       /\ Len(playerTerritories[playerId]) > 0
  THEN { <<playerTerritories[playerId][i]>> :
           i \in 1..Len(playerTerritories[playerId]) }
  ELSE { << >> }

\* case 'territories' / case 'territory' of applyEventEffects: the feature
\* of every affected territory takes the event's value
territoryFeatureEffect(fs, event) ==
  IF event.effectType \in {"territory", "territories"}
       /\ event.territoryEffect.feature # ""
  THEN [t \in Territories |->
          IF Includes(event.affectedTerritories, t)
          THEN [fs[t] EXCEPT ![event.territoryEffect.feature] =
                               event.territoryEffect.value]
          ELSE fs[t]]
  ELSE fs

\* EventsManager.reverseEventEffects: case 'territory' sets the feature of
\* every affected territory to the negation of the event's value
reverseEventEffects(fs, event) ==
  IF event.effectType = "territory" /\ event.territoryEffect.feature # ""
  THEN [t \in Territories |->
          IF Includes(event.affectedTerritories, t)
          THEN [fs[t] EXCEPT ![event.territoryEffect.feature] =
                               ~event.territoryEffect.value]
          ELSE fs[t]]
  ELSE fs

RECURSIVE reverseAll(_, _, _)
\* expiredEvents.forEach: the reversible events are reversed in order
reverseAll(fs, expiredEvents, i) ==
  IF i > Len(expiredEvents) THEN fs
  ELSE reverseAll(IF expiredEvents[i].reverseOnExpire
                  THEN reverseEventEffects(fs, expiredEvents[i]) ELSE fs,
                  expiredEvents, i + 1)

\* checkForEvent for a selected event with duration > 0: the event enters
\* activeEvents with startTurn and endTurn and is added to the history; an
\* event type is drawn again only when it is no longer active
registerActiveEvent(event, playerId) ==
  /\ enableEvents
  /\ ~eliminated[playerId]
  /\ event.duration > 0
  /\ isPotentialEvent(event, playerId)
  /\ \A i \in 1..Len(activeEvents) : activeEvents[i].id # event.id
  /\ \E aff \in affectedTerritoriesOf(event, playerId) :
       LET preparedEvent == [id              |-> event.id,
                             type            |-> event.type,
                             targetPlayerId  |-> playerId,
                             reverseOnExpire |-> event.reverseOnExpire,
                             effectType      |-> event.effectType,
                             territoryEffect |-> event.territoryEffect,
                             affectedTerritories |-> aff,
                             startTurn       |-> turn,
                             endTurn         |-> turn + event.duration]
       IN  /\ features' = territoryFeatureEffect(features, preparedEvent)
           /\ featuresBefore' =
                 (IF event.effectType \in {"territory", "territories"}
                  THEN features ELSE featuresBefore)
           /\ activeEvents' = Append(activeEvents, preparedEvent)
  /\ eventHistory' = Append(eventHistory, HistoryEntry(event.type, FALSE))
  /\ result' = [NoResult EXCEPT !.op = "event", !.success = TRUE]
  /\ UNCHANGED <<gameVars, eventLog, enableEvents, reversals, conquestAttacker,
                 victoryProgress, researchVars>>

\* EventsManager.updateActiveEvents with the expiry test "endTurn < currentTurn"
updateActiveEventsLate(playerId) ==
  LET currentTurn == turn
      expiredEvents == SelectSeq(activeEvents, LAMBDA e : e.endTurn < currentTurn)
  IN  /\ reversals' = reversals \o SelectSeq(expiredEvents, LAMBDA e : e.reverseOnExpire)
      /\ eventHistory' = eventHistory \o expiryEntries(expiredEvents)
      /\ activeEvents' = SelectSeq(activeEvents, LAMBDA e : e.endTurn >= currentTurn)
      /\ features' = reverseAll(features, expiredEvents, 1)
      /\ result' = [NoResult EXCEPT !.op = "updateActiveEvents", !.success = TRUE]
      /\ UNCHANGED <<gameVars, eventLog, enableEvents, conquestAttacker,
                     victoryProgress, featuresBefore, researchVars>>

\* EventsManager.updateActiveEvents
updateActiveEvents(playerId) ==
  LET currentTurn == turn
      expiredEvents == SelectSeq(activeEvents, LAMBDA e : e.endTurn <= currentTurn)
  IN  /\ reversals' = reversals \o SelectSeq(expiredEvents, LAMBDA e : e.reverseOnExpire)
      /\ eventHistory' = eventHistory \o expiryEntries(expiredEvents)
      /\ activeEvents' = SelectSeq(activeEvents, LAMBDA e : e.endTurn > currentTurn)
      /\ features' = reverseAll(features, expiredEvents, 1)
      /\ result' = [NoResult EXCEPT !.op = "updateActiveEvents", !.success = TRUE]
      /\ UNCHANGED <<gameVars, eventLog, enableEvents, conquestAttacker,
                     victoryProgress, featuresBefore, researchVars>>

\* the turn counter moves on (GameState.nextPlayer, this.turn++)
turnPasses ==
  /\ turn < MaxEventTurn
  /\ turn' = turn + 1
  /\ result' = [NoResult EXCEPT !.op = "endPhase", !.success = TRUE]
  /\ UNCHANGED <<occupyingPlayer, armies, playerTerritories, playerCards,
                 eliminated, cardDeck, discardPile, currentPlayerIndex, phase,
                 gameOver, winner, victoryType, pendingConquest, cardAwarded,
                 remainingReinforcements, eventLog, eventHistory,
                 enableEvents, activeEvents, reversals, conquestAttacker, victoryProgress, features, featuresBefore, researchVars>>

RegisterEvent == \E event \in DurationEvents : registerActiveEvent(event, getCurrentPlayer)

UpdateEvents == updateActiveEvents(getCurrentPlayer)

TurnPasses == turnPasses

InitEvents == StartFrom(EventsPosition)

NextEvents ==
  \/ RegisterEvent
  \/ UpdateEvents
  \/ TurnPasses

SpecEvents == InitEvents /\ [][NextEvents]_vars

DieFaces == 6

\* lines 400-422 of processAttack on their own: roll, sort, compare
resolveDice(attackDice, defenseDice) ==
  \E a \in [1..attackDice -> 1..DieFaces], d \in [1..defenseDice -> 1..DieFaces] :
    LET attackRolls  == SortDescending(a)
        defenseRolls == SortDescending(d)
    IN  /\ result' = [op             |-> "compareDice",
                      success        |-> TRUE,
                      rolled         |-> <<a, d>>,
                      attackRolls    |-> attackRolls,
                      defenseRolls   |-> defenseRolls,
                      attackerLosses |-> attackerLossesOf(attackRolls, defenseRolls),
                      defenderLosses |-> defenderLossesOf(attackRolls, defenseRolls)]
        /\ UNCHANGED <<gameVars, eventLog, eventHistory, enableEvents,
                       activeEvents, reversals, conquestAttacker, victoryProgress, features, featuresBefore, researchVars>>

\* one battle is resolved per behaviour
ResolveDice ==
  /\ result = NoResult
  /\ \E attackDice \in 1..3, defenseDice \in 1..2 : resolveDice(attackDice, defenseDice)

InitCombat == StartFrom(RoundPosition)

NextCombat == ResolveDice

SpecCombat == InitCombat /\ [][NextCombat]_vars

\* s is in descending order and holds the same values as rolled
IsSortedRoll(s, rolled) ==
  /\ Len(s) = Len(rolled)
  /\ \A i \in 1..(Len(s) - 1) : s[i] >= s[i + 1]
  /\ \A v \in 1..DieFaces :
       Cardinality({i \in 1..Len(s) : s[i] = v})
         = Cardinality({i \in 1..Len(rolled) : rolled[i] = v})

\* C14: in combat resolution both dice sets are sorted descending and paired
\* index by index up to min(attack dice, defense dice); each pair assigns
\* exactly one casualty, to the defender if and only if the attack die is
\* strictly greater than the defense die, otherwise (ties included) to the
\* attacker.
C14_TieGoesToDefender ==
  result.op = "compareDice"
    => LET a == result.attackRolls
           d == result.defenseRolls
           pairs == 1..Min(Len(a), Len(d))
       IN  /\ IsSortedRoll(a, result.rolled[1])
           /\ IsSortedRoll(d, result.rolled[2])
           /\ result.defenderLosses = Cardinality({i \in pairs : a[i] > d[i]})
           /\ result.attackerLosses = Cardinality({i \in pairs : a[i] <= d[i]})
           /\ result.attackerLosses + result.defenderLosses = Cardinality(pairs)

\* a roll with a tied pair, which costs the attacker an army, and a pair won by the attacker
C14_Witness ==
  /\ result.op = "compareDice"
  /\ \E i \in 1..Min(Len(result.attackRolls), Len(result.defenseRolls)) :
       result.attackRolls[i] = result.defenseRolls[i]
  /\ result.attackerLosses = 1
  /\ result.defenderLosses = 1

\* ---------------------------------------------- reinforcement entitlement
WorldSize == 16

\* a larger map: t1 .. t16, of which t1, t3 (c1) and t4, t5 (c2) lie in continents
WorldIds == [i \in 1..WorldSize |-> "t" \o ToString(i)]

World == {WorldIds[i] : i \in 1..WorldSize}

\* p1 owns the territories of owned, p3 the rest; one infantry everywhere
InitReinforce ==
  \E owned \in SUBSET World :
    /\ occupyingPlayer = [t \in World |-> IF t \in owned THEN "p1" ELSE "p3"]
    /\ armies = [t \in World |-> Units(1, 0, 0)]
    /\ playerTerritories =
         [p \in Players |->
            CASE p = "p1" -> SelectSeq(WorldIds, LAMBDA t : t \in owned)
              [] p = "p2" -> << >>
              [] p = "p3" -> SelectSeq(WorldIds, LAMBDA t : t \notin owned)]
    /\ eliminated = [p \in Players |-> p = "p2"]
    /\ playerCards = [p \in Players |-> << >>]
    /\ cardDeck = << >>
    /\ currentPlayerIndex = 0
    /\ enableEvents = FALSE
    /\ discardPile = << >>
    /\ phase = "reinforcement"
    /\ turn = 1
    /\ gameOver = FALSE
    /\ winner = NoPlayer
    /\ victoryType = ""
    /\ pendingConquest = << >>
    /\ cardAwarded = FALSE
    /\ remainingReinforcements = << >>
    /\ eventLog = << >>
    /\ eventHistory = << >>
    /\ activeEvents = << >>
    /\ reversals = << >>
    /\ victoryProgress = [p \in Players |-> 0]
    /\ features = NoFeatures
    /\ featuresBefore = NoFeatures
    /\ technologies = [p \in Players |-> << >>]
    /\ researchPoints = [p \in Players |-> 0]
    /\ researchProgress = NoResearch
  /\ victoryProgress = [p \in Players |-> 0]
  /\ features = NoFeatures
  /\ featuresBefore = NoFeatures
  /\ technologies = [p \in Players |-> << >>]
  /\ researchPoints = [p \in Players |-> 0]
  /\ researchProgress = NoResearch
    /\ conquestAttacker = NoPlayer
    /\ result = NoResult

\* the entitlement of the current player is computed once
CountReinforcements ==
  /\ result = NoResult
  /\ result' = [NoResult EXCEPT !.op = "getReinforcementArmies",
                                !.success = TRUE,
                                !.armies = getReinforcementArmies(getCurrentPlayer)]
  /\ UNCHANGED <<gameVars, eventLog, eventHistory, enableEvents,
                 activeEvents, reversals, conquestAttacker, victoryProgress, features, featuresBefore, researchVars>>

NextReinforce == CountReinforcements

SpecReinforce == InitReinforce /\ [][NextReinforce]_vars

\* C15: getReinforcementArmies(player) equals max(3, floor(owned territory
\* count / 3)) plus the sum of bonusArmies over exactly the continents all of
\* whose territories the player owns; 9 territories and no continent give 3,
\* 12 give 4.
C15_ReinforcementArmies ==
  result.op = "getReinforcementArmies"
    => LET owned == {t \in World : occupyingPlayer[t] = getCurrentPlayer}
           n     == Cardinality(owned)
           base  == IF n \div 3 > 3 THEN n \div 3 ELSE 3
           c1    == IF {"t1", "t3"} \subseteq owned THEN 2 ELSE 0
           c2    == IF {"t4", "t5"} \subseteq owned THEN 3 ELSE 0
       IN  /\ result.armies = base + c1 + c2
           /\ (n = 9 /\ c1 + c2 = 0) => result.armies = 3
           /\ (n = 12 /\ c1 + c2 = 0) => result.armies = 4

\* twelve territories outside the continents
C15_Witness ==
  /\ result.op = "getReinforcementArmies"
  /\ Len(playerTerritories["p1"]) = 12
  /\ \A t \in {"t1", "t3", "t4", "t5"} : occupyingPlayer[t] # "p1"
  /\ result.armies = 4

\* --------------------------------------- card trades and the event log
\* (the GameState of the enhanced game state module, which holds processCardTrade)
MaxLogTurn == 8

LogKept == 50

\* ------------------------------------------------------------- research
\* TechManager.getResearchCost: knowledge-sharing takes a quarter off
getResearchCost(playerId, techId) ==
  IF eliminated[playerId] THEN TechTree[techId].cost
  ELSE Max(1, IF Includes(technologies[playerId], "knowledge-sharing")
              THEN (TechTree[techId].cost * 3) \div 4
              ELSE TechTree[techId].cost)

\* TechManager.calculateResearchTime: a fifth of the cost, rounded up, and
\* four fifths of that, rounded up, with scientific-method; the
\* ResourceManager reports no research production
calculateResearchTime(playerId, techId) ==
  LET base == (TechTree[techId].cost + 4) \div 5
  IN  IF eliminated[playerId] THEN base
      ELSE Max(1, IF Includes(technologies[playerId], "scientific-method")
                  THEN (base * 4 + 4) \div 5
                  ELSE base)

\* researchProgress[playerId][techId] is set
isResearching(playerId, techId) ==
  \E i \in 1..Len(researchProgress[playerId]) :
     researchProgress[playerId][i].techId = techId

\* the tests of startResearch without the loop over the prerequisites
canStartResearchUnchecked(playerId, techId) ==
  /\ ~eliminated[playerId]
  /\ techId \in Techs
  /\ ~Includes(technologies[playerId], techId)
  /\ ~isResearching(playerId, techId)
  /\ \/ Len(researchProgress[playerId]) = 0
     \/ Includes(technologies[playerId], "advanced-research")
  /\ researchPoints[playerId] >= getResearchCost(playerId, techId)

\* the tests of startResearch, in its order
canStartResearch(playerId, techId) ==
  /\ ~eliminated[playerId]
  /\ techId \in Techs
  /\ ~Includes(technologies[playerId], techId)
  /\ \A prereq \in TechTree[techId].prerequisites :
        Includes(technologies[playerId], prereq)
  /\ ~isResearching(playerId, techId)
  /\ \/ Len(researchProgress[playerId]) = 0
     \/ Includes(technologies[playerId], "advanced-research")
  /\ researchPoints[playerId] >= getResearchCost(playerId, techId)

\* TechManager.startResearch(playerId, techId)
startResearch(playerId, techId) ==
  IF canStartResearch(playerId, techId)
  THEN /\ researchPoints' = [researchPoints EXCEPT ![playerId] =
                               @ - getResearchCost(playerId, techId)]
       /\ researchProgress' =
            [researchProgress EXCEPT ![playerId] =
               Append(@, [techId |-> techId,
                          turnsRemaining |-> calculateResearchTime(playerId, techId)])]
       /\ eventLog' = Append(eventLog, "research-start")
       /\ result' = [op |-> "startResearch", success |-> TRUE,
                     playerId |-> playerId, techId |-> techId]
       /\ UNCHANGED <<gameVars, technologies, eventHistory, enableEvents,
                      activeEvents, reversals, conquestAttacker, victoryProgress,
                      features, featuresBefore>>
  ELSE /\ result' = [op |-> "startResearch", success |-> FALSE]
       /\ UNCHANGED <<gameVars, researchVars, eventLog, eventHistory, enableEvents,
                      activeEvents, reversals, conquestAttacker, victoryProgress,
                      features, featuresBefore>>

\* TechManager.updateResearch(playerId): every entry loses a turn; the
\* entries that have none left become technologies of the player, in the
\* order of the entries, and each is logged
updateResearch(playerId) ==
  IF eliminated[playerId] \/ Len(researchProgress[playerId]) = 0
  THEN [technologies |-> technologies, researchProgress |-> researchProgress,
        log |-> << >>]
  ELSE LET entries == [i \in 1..Len(researchProgress[playerId]) |->
                         [researchProgress[playerId][i]
                            EXCEPT !.turnsRemaining = @ - 1]]
           complete == SelectSeq(entries, LAMBDA e : e.turnsRemaining <= 0)
       IN  [technologies |->
              [technologies EXCEPT ![playerId] =
                 @ \o [i \in 1..Len(complete) |-> complete[i].techId]],
            researchProgress |->
              [researchProgress EXCEPT ![playerId] =
                 SelectSeq(entries, LAMBDA e : e.turnsRemaining > 0)],
            log |-> [i \in 1..Len(complete) |-> "research-complete"]]

\* its nextPhase: the phase moves on, after fortification nextPlayer runs
\* (with processPlayerTurnStart, which logs 'turn-start'), and the change of
\* phase is logged
enhancedNextPhase ==
  LET r == skipEliminated((currentPlayerIndex + 1) % Len(PlayerIds), currentPlayerIndex)
      turnStart == IF eliminated[PlayerIds[r.index + 1]] THEN << >> ELSE <<"turn-start">>
      research == updateResearch(PlayerIds[r.index + 1])
  IN  /\ CASE phase = "reinforcement" ->
                /\ phase' = "attack"
                /\ eventLog' = Append(eventLog, "phase-change")
                /\ UNCHANGED <<currentPlayerIndex, gameOver, winner, turn,
                               technologies, researchProgress>>
           [] phase = "attack" ->
                /\ phase' = "fortification"
                /\ eventLog' = Append(eventLog, "phase-change")
                /\ UNCHANGED <<currentPlayerIndex, gameOver, winner, turn,
                               technologies, researchProgress>>
           [] phase = "fortification" ->
                /\ phase' = "reinforcement"
                /\ currentPlayerIndex' = r.index
                /\ gameOver' = (IF r.over THEN TRUE ELSE gameOver)
                /\ winner' = (IF r.over THEN PlayerIds[currentPlayerIndex + 1] ELSE winner)
                /\ turn' = (IF r.index = 0 THEN turn + 1 ELSE turn)
                /\ technologies' = research.technologies
                /\ researchProgress' = research.researchProgress
                /\ eventLog' = ((eventLog \o research.log) \o turnStart)
                                 \o <<"phase-change">>
      /\ turn' <= MaxLogTurn
      /\ result' = [NoResult EXCEPT !.op = "endPhase", !.success = TRUE]
      /\ UNCHANGED <<occupyingPlayer, armies, playerTerritories, playerCards,
                     eliminated, cardDeck, discardPile, victoryType,
                     pendingConquest, cardAwarded, remainingReinforcements,
                     eventHistory, enableEvents, activeEvents, reversals,
                     conquestAttacker, victoryProgress, features, featuresBefore,
                     researchPoints>>

\* its serialize followed by its deserialize: the save holds the last
\* LogKept entries of the log, and the card deck is not restored
enhancedSaveLoad ==
  /\ eventLog' = (IF Len(eventLog) <= LogKept THEN eventLog
                  ELSE SubSeq(eventLog, Len(eventLog) - LogKept + 1, Len(eventLog)))
  /\ cardDeck' = << >>
  /\ discardPile' = << >>
  /\ result' = [NoResult EXCEPT !.op = "loadGame", !.success = TRUE]
  /\ UNCHANGED <<occupyingPlayer, armies, playerTerritories, playerCards,
                 eliminated, currentPlayerIndex, phase, turn, gameOver, winner,
                 victoryType, pendingConquest, cardAwarded,
                 remainingReinforcements, eventHistory, enableEvents,
                 activeEvents, reversals, conquestAttacker, victoryProgress, features, featuresBefore, researchVars>>

EnhancedNextPhase == enhancedNextPhase

EnhancedSaveLoad == enhancedSaveLoad

InitTrade == StartFrom(CardsPosition)

NextTrade ==
  \/ TradeCards
  \/ EnhancedNextPhase
  \/ EnhancedSaveLoad

SpecTrade == InitTrade /\ [][NextTrade]_vars

\* C16: the base reward of a card trade is schedule(k), k being the number
\* of sets traded since the start of the game, this one included: 4, 6, 8,
\* 10, 12, 15 for k = 1..6 and 15 + 5 * (k - 6) from k = 7 on; k grows by
\* exactly 1 per successful trade and never decreases, also after the state
\* has been saved and reloaded.
C16_TradeSchedule ==
  [][/\ calculateSetNumber' >= calculateSetNumber
     /\ \A k \in 1..8 :
          calculateArmiesForSet(k)
            = (IF k <= 6 THEN <<4, 6, 8, 10, 12, 15>>[k] ELSE 15 + 5 * (k - 6))
     /\ (result'.op = "tradeCards" /\ result'.success)
          => /\ calculateSetNumber' = calculateSetNumber + 1
             /\ result'.setNumber = calculateSetNumber
             /\ \E bonus \in {0, 2, 4, 6} :
                  result'.armies = calculateArmiesForSet(result'.setNumber) + bonus]_vars

\* ------------------------------------------------- validity of a card set
MaxSetLen == 4

\* the lists of cards handed to isValidCardSet
CardLists == UNION {[1..n -> Cards] : n \in 0..MaxSetLen}

CheckCardSet ==
  /\ result = NoResult
  /\ \E cards \in CardLists :
       result' = [op |-> "isValidCardSet", success |-> TRUE, cards |-> cards,
                  valid |-> isValidCardSet(cards)]
  /\ UNCHANGED gameVars
  /\ UNCHANGED <<eventLog, eventHistory, enableEvents, activeEvents, reversals,
                 conquestAttacker, victoryProgress, features, featuresBefore, researchVars>>

InitCardSet == StartFrom(CardsPosition)

NextCardSet == CheckCardSet

SpecCardSet == InitCardSet /\ [][NextCardSet]_vars

UnitTypes == {"infantry", "cavalry", "artillery"}

\* the ways of reading a list of cards as a list of unit types, a wild card
\* standing for any type
Readings(cards) ==
  {f \in [1..Len(cards) -> UnitTypes] :
     \A i \in 1..Len(cards) :
       cardType(cards[i]) # "wild" => f[i] = cardType(cards[i])}

\* C17: isValidCardSet is true exactly for the lists of 3 cards that, with
\* each wild card standing for some type, are three of one type or three
\* pairwise distinct types; the invalid lists of 3 cards are exactly those
\* of two cards of one type and one of another, without a wild card.
C17_ValidCardSet ==
  result.op = "isValidCardSet" =>
    LET cards == result.cards
        types == {cardType(cards[i]) : i \in 1..Len(cards)}
    IN  /\ result.valid <=>
             /\ Len(cards) = 3
             /\ \E f \in Readings(cards) :
                  \/ f[1] = f[2] /\ f[2] = f[3]
                  \/ f[1] # f[2] /\ f[2] # f[3] /\ f[1] # f[3]
        /\ Len(cards) = 3 =>
             (~result.valid <=>
                /\ "wild" \notin types
                /\ Cardinality(types) = 2)

C17_Witness ==
  /\ result.op = "isValidCardSet"
  /\ result.valid
  /\ CountType(result.cards, "wild") = 1
  /\ Cardinality({cardType(result.cards[i]) : i \in 1..3}) = 3

\* C18: a successful trade adds 2 to the armies awarded for each traded card
\* whose territory the trading player owns, and raises the army count of
\* that territory by 2; the other cards add nothing.
C18_TerritoryBonusPlaced ==
  [][(result'.op = "tradeCards" /\ result'.success) =>
       LET playerId == getCurrentPlayer
           traded == SubSeq(discardPile', Len(discardPile) + 1, Len(discardPile'))
           ownedCards(t) == Cardinality({i \in 1..Len(traded) :
                                           /\ cardTerritory(traded[i]) = t
                                           /\ occupyingPlayer[t] = playerId})
       IN  /\ result'.armies
                = calculateArmiesForSet(result'.setNumber)
                    + SumArmies([t \in Territories |-> Units(2 * ownedCards(t), 0, 0)],
                                Territories)
           /\ \A t \in Territories :
                getTotalArmies(armies'[t])
                  = getTotalArmies(armies[t]) + 2 * ownedCards(t)]_vars

\* C19: a successful fortification lowers the army value of the source by
\* exactly the army count asked for and raises that of the destination by
\* the same amount, infantry being taken first, and the source keeps an
\* army value of at least 1, whatever units it holds.
C19_FortifyMovesArmyCount ==
  [][(result'.op = "fortify" /\ result'.success) =>
       \E fromTerritoryId \in Territories, toTerritoryId \in Territories,
          armyCount \in ArmyCounts :
         /\ fromTerritoryId # toTerritoryId
         /\ getTotalArmies(armies'[fromTerritoryId])
              = getTotalArmies(armies[fromTerritoryId]) - armyCount
         /\ getTotalArmies(armies'[toTerritoryId])
              = getTotalArmies(armies[toTerritoryId]) + armyCount
         /\ armies'[fromTerritoryId].infantry
              = armies[fromTerritoryId].infantry
                  - Min(armies[fromTerritoryId].infantry, armyCount)
         /\ getTotalArmies(armies'[fromTerritoryId]) >= 1
         /\ \A t \in Territories \ {fromTerritoryId, toTerritoryId} :
              armies'[t] = armies[t]]_vars

\* ------------------------------------------------------- movement range
\* the movement event of the catalogue (its territory threshold is scaled to
\* the three-territory map)
MovementEvents ==
  { [id |-> "improved-logistics", type |-> "improved-logistics",
     duration |-> 2, reverseOnExpire |-> FALSE,
     maxOccurrences |-> 2, minTerritories |-> 2,
     effectType |-> "movement", territoryEffect |-> NoTerritoryEffect] }

\* p1 to move holds t2 and t3, which are joined only through p3's t1
MovePosition ==
  [CardsPosition EXCEPT
     !.owner = [t \in Territories |-> IF t = "t1" THEN "p3" ELSE "p1"],
     !.armies = [t \in Territories |-> Units(4, 1, 0)],
     !.index = 0,
     !.events = TRUE]

RegisterMovementEvent ==
  \E event \in MovementEvents : registerActiveEvent(event, getCurrentPlayer)

InitMove == StartFrom(MovePosition)

NextMove ==
  \/ RegisterMovementEvent
  \/ UpdateEvents
  \/ EndPhase
  \/ Fortify

SpecMove == InitMove /\ [][NextMove]_vars

\* the territories within R hops of fromTerritoryId along territories the
\* player owns
RECURSIVE WithinHops(_, _, _)
WithinHops(fromTerritoryId, R, playerId) ==
  IF R <= 0 THEN {fromTerritoryId}
  ELSE LET near == WithinHops(fromTerritoryId, R - 1, playerId)
       IN  near \cup {t \in Territories :
                        /\ occupyingPlayer[t] = playerId
                        /\ \E s \in near : isAdjacentTo(s, t)}

\* C20: a fortification succeeds only between two territories of the player
\* that are joined by a path of at most R hops through territories the
\* player owns, R being 1 plus the player's movement modifiers.
C20_FortifyWithinRange ==
  [][(result'.op = "fortify" /\ result'.success) =>
       LET playerId == getCurrentPlayer
           R == 1 + getMovementModifiers(playerId)
       IN  \E fromTerritoryId \in Territories, toTerritoryId \in Territories :
             /\ fromTerritoryId # toTerritoryId
             /\ occupyingPlayer[fromTerritoryId] = playerId
             /\ occupyingPlayer[toTerritoryId] = playerId
             /\ R >= 1
             /\ toTerritoryId \in WithinHops(fromTerritoryId, R, playerId)
             /\ \E armyCount \in ArmyCounts :
                  LET m == moveUnits(armies[fromTerritoryId], armies[toTerritoryId],
                                     armyCount)
                  IN  armies' = [armies EXCEPT ![fromTerritoryId] = m.from,
                                               ![toTerritoryId] = m.to]]_vars

\* ---------------------------------------------- card award, empty deck
\* the deck has run out: p3 to move holds a set it can trade, p1 holds the
\* other two cards
AwardPosition ==
  [CardsPosition EXCEPT
     !.cards = [p \in Players |->
                  CASE p = "p1" -> <<"card-t3", "wild-2">>
                    [] p = "p2" -> << >>
                    [] p = "p3" -> <<"card-t1", "card-t2", "wild-1">>],
     !.deck = << >>]

InitAward == StartFrom(AwardPosition)

NextAward ==
  \/ TradeCards
  \/ EndPhase
  \/ Attack
  \/ ResolveConquest

SpecAward == InitAward /\ [][NextAward]_vars

\* C21: a player who conquered a territory during the attack phase receives
\* exactly one card when that attack phase ends, provided the deck or the
\* discard pile holds a card; a player who conquered nothing receives none,
\* and no other end of phase hands out a card.
C21_OneCardPerConquestTurn ==
  [][/\ (result'.op = "attack" /\ result'.success /\ result'.territoryConquered)
          => cardAwarded'
     /\ result'.op = "endPhase" =>
          LET playerId == getCurrentPlayer
              gained == Len(playerCards'[playerId]) - Len(playerCards[playerId])
          IN  /\ \A p \in Players \ {playerId} : playerCards'[p] = playerCards[p]
              /\ IF phase = "attack" /\ cardAwarded
                    /\ (cardDeck # << >> \/ discardPile # << >>)
                 THEN gained = 1
                 ELSE gained = 0]_vars

\* C22: when a card has to be drawn and the deck is empty while the discard
\* pile is not, the discard pile goes into the deck, the discard pile is left
\* empty and the draw succeeds; a draw yields no card only when the deck and
\* the discard pile are both empty.
C22_DiscardPileReshuffled ==
  [][(result'.op = "endPhase" /\ phase = "attack" /\ cardAwarded) =>
       LET playerId == getCurrentPlayer
           gained == Len(playerCards'[playerId]) - Len(playerCards[playerId])
       IN  /\ (cardDeck = << >> /\ discardPile # << >>)
                => /\ discardPile' = << >>
                   /\ gained = 1
                   /\ Len(cardDeck') = Len(discardPile) - 1
           /\ cardDeck # << >>
                => /\ gained = 1
                   /\ discardPile' = discardPile
                   /\ Len(cardDeck') = Len(cardDeck) - 1
           /\ gained = 0 => (cardDeck = << >> /\ discardPile = << >>)]_vars

\* C23: as soon as exactly one player is not eliminated the game is over,
\* that player is the winner and the victory type is 'military'; the game is
\* never over with a military victory while two or more players are not
\* eliminated.
C23_MilitaryVictory ==
  LET active == {p \in Players : ~eliminated[p]}
  IN  /\ Cardinality(active) = 1
           => /\ gameOver
              /\ winner \in active
              /\ victoryType = "military"
      /\ (gameOver /\ victoryType = "military") => Cardinality(active) = 1

\* ------------------------------------------------------ economic victory

\* three players in the game, p2 to move
ThreePlayersPosition ==
  [owner  |-> [t \in Territories |->
                 CASE t = "t1" -> "p1" [] t = "t2" -> "p2" [] t = "t3" -> "p3"],
   armies |-> [t \in Territories |->
                 CASE t = "t1" -> Units(1, 0, 0)
                   [] t = "t2" -> Units(3, 0, 0)
                   [] t = "t3" -> Units(3, 0, 0)],
   cards  |-> [p \in Players |-> << >>],
   deck   |-> CardIds,
   out    |-> {},
   index  |-> 1,
   events |-> FALSE]

InitEconomic == StartFrom(ThreePlayersPosition)

NextEconomic ==
  \/ EndPhase
  \/ Attack
  \/ ResolveConquest

SpecEconomic == InitEconomic /\ [][NextEconomic]_vars

holdsWealthMajority(playerId) ==
  2 * Cardinality({t \in WealthTerritories : occupyingPlayer[t] = playerId})
    > Cardinality(WealthTerritories)

\* C24: an economic victory is declared only for a player who holds the
\* economic-dominance technology and whose counter of consecutive turns with
\* a strict majority of the wealth-producing territories has reached 3; the
\* counter never grows by more than 1, and when a player's turn ends every
\* player without the majority has a counter of 0.
C24_EconomicVictory ==
  [][/\ (victoryType' = "economic" /\ victoryType # "economic")
          => /\ Includes(technologies'[winner'], "economic-dominance")
             /\ victoryProgress'[winner'] >= EconomicTurns
     /\ \A p \in Players : victoryProgress'[p] <= victoryProgress[p] + 1
     /\ (phase = "fortification" /\ phase' = "reinforcement")
          => \A p \in Players :
               ~holdsWealthMajority(p)' => victoryProgress'[p] = 0]_vars

\* ------------------------------------------------------------ rebellion
\* the rebellion entries of the catalogue and the rebellion of the test
\* suite (strength 3, the territory can be lost)
RebellionEvents ==
  {e \in EventEffects : e.effectType = "rebellion"}
  \cup
  { [effectType |-> "rebellion", armyEffect |-> 0, rebellionStrength |-> 3,
     territoryLostOnRebellion |-> TRUE, cardEffect |-> 0, minTerritories |-> 0] }

\* p3 holds t1 and t2 with any units up to MaxArmies infantry and one cavalry
InitRebellion ==
  \E a1, a2 \in {Units(i, c, 0) : i \in 0..MaxArmies, c \in 0..1} :
    StartFrom([EventsPosition EXCEPT
                 !.armies = [t \in Territories |->
                               CASE t = "t1" -> a1 [] t = "t2" -> a2
                                 [] t = "t3" -> Units(1, 0, 0)]])

\* applyEventEffects called with a prepared rebellion event
ApplyRebellion ==
  /\ result = NoResult
  /\ \E e \in RebellionEvents :
       \E event \in prepareEvent(e, getCurrentPlayer) :
         /\ eventEffects(event)
         /\ result' = [op |-> "applyEventEffects", success |-> TRUE,
                       event |-> event]
  /\ UNCHANGED <<eventLog, eventHistory, enableEvents, activeEvents, reversals,
                 victoryProgress, features, featuresBefore, researchVars>>

NextRebellion == ApplyRebellion

SpecRebellion == InitRebellion /\ [][NextRebellion]_vars

\* C25: a rebellion lowers the infantry of the affected territory by its
\* strength, clamped at 0; if the army value is then 0 and the event can
\* cost the territory, the territory becomes neutral, leaves the player's
\* territory list and holds 1 to 3 rebel infantry; otherwise the owner and
\* the list are unchanged.
C25_RebellionEffect ==
  [][result'.op = "applyEventEffects" =>
       LET event == result'.event
           t == event.affectedTerritories[1]
           playerId == event.targetPlayerId
           reduced == Max(0, armies[t].infantry - event.effect.rebellionStrength)
           lost == /\ reduced + 3 * armies[t].cavalry + 5 * armies[t].artillery = 0
                   /\ event.effect.territoryLostOnRebellion
       IN  /\ \A other \in Territories \ {t} :
                /\ armies'[other] = armies[other]
                /\ occupyingPlayer'[other] = occupyingPlayer[other]
           /\ armies'[t].cavalry = armies[t].cavalry
           /\ armies'[t].artillery = armies[t].artillery
           /\ IF lost
              THEN /\ occupyingPlayer'[t] = NoPlayer
                   /\ ~Includes(playerTerritories'[playerId], t)
                   /\ armies'[t].infantry \in 1..3
              ELSE /\ armies'[t].infantry = reduced
                   /\ occupyingPlayer'[t] = occupyingPlayer[t]
                   /\ playerTerritories' = playerTerritories]_vars

C25_Witness ==
  /\ result.op = "applyEventEffects"
  /\ result.event.effect.territoryLostOnRebellion
  /\ occupyingPlayer[result.event.affectedTerritories[1]] = NoPlayer
  /\ armies[result.event.affectedTerritories[1]].infantry = 3

\* ---------------------------------------------------- attack validation
MaxDice == 4

\* games loaded in any phase: the positions above, and the three-player
\* position with each player to move and 0 to MaxArmies infantry on t1 and t2
InitAttackCheck ==
  \E ph \in Phases :
    \/ \E pos \in Positions : StartIn(pos, ph)
    \/ \E index \in 0..2, i1, i2 \in 0..MaxArmies :
         StartIn([ThreePlayersPosition EXCEPT
                    !.index = index,
                    !.armies = [t \in Territories |->
                                  CASE t = "t1" -> Units(i1, 0, 0)
                                    [] t = "t2" -> Units(i2, 0, 0)
                                    [] t = "t3" -> Units(3, 0, 0)]], ph)

\* the validation of processAttack on one argument list: the error it
\* returns ("" when the attack is accepted) and the defense dice count
ValidateAttack ==
  /\ result = NoResult
  /\ \E playerId \in Players, fromTerritoryId \in Territories,
        toTerritoryId \in Territories, attackDice \in 0..MaxDice :
       result' = [op |-> "validateAttack", success |-> TRUE,
                  playerId |-> playerId, fromTerritoryId |-> fromTerritoryId,
                  toTerritoryId |-> toTerritoryId, attackDice |-> attackDice,
                  error |-> attackError(playerId, fromTerritoryId,
                                        toTerritoryId, attackDice),
                  defenseDice |-> defenseDiceOf(toTerritoryId)]
  /\ UNCHANGED gameVars
  /\ UNCHANGED <<eventLog, eventHistory, enableEvents, activeEvents, reversals,
                 conquestAttacker, victoryProgress, features, featuresBefore, researchVars>>

NextAttackCheck == ValidateAttack

SpecAttackCheck == InitAttackCheck /\ [][NextAttackCheck]_vars

\* C26: an attack is rejected, each case with its own error, when the caller
\* is not the current player, the phase is not attack, from is not the
\* caller's, to is the caller's, to is not adjacent to from, from holds less
\* than 2 army value, or the dice count is outside 1..3 or larger than
\* from's army value minus 1; every other attack is accepted, with
\* min(2, army value of to) defense dice.
C26_AttackValidation ==
  result.op = "validateAttack" =>
    LET fromValue == getTotalArmies(armies[result.fromTerritoryId])
        toValue   == getTotalArmies(armies[result.toTerritoryId])
        cases ==
          << <<"Not your turn",
               PlayerIds[currentPlayerIndex + 1] # result.playerId>>,
             <<"Not in attack phase", phase # "attack">>,
             <<"You do not control the attacking territory",
               occupyingPlayer[result.fromTerritoryId] # result.playerId>>,
             <<"You cannot attack your own territory",
               occupyingPlayer[result.toTerritoryId] = result.playerId>>,
             <<"Territories are not adjacent",
               result.toTerritoryId \notin adjacentTerritories[result.fromTerritoryId]>>,
             <<"Need at least 2 armies to attack", fromValue < 2>>,
             <<"Invalid attack dice count", result.attackDice \notin 1..3>>,
             <<"Not enough armies for selected dice count",
               result.attackDice > fromValue - 1>> >>
    IN  /\ result.error = "" <=> \A i \in 1..Len(cases) : ~cases[i][2]
        /\ result.error # ""
             => \E i \in 1..Len(cases) :
                  /\ result.error = cases[i][1]
                  /\ cases[i][2]
        /\ \A i, j \in 1..Len(cases) : cases[i][1] = cases[j][1] => i = j
        /\ result.error = ""
             => result.defenseDice = (IF toValue >= 2 THEN 2 ELSE toValue)

C26_Witness ==
  /\ result.op = "validateAttack"
  /\ result.error = ""
  /\ result.attackDice = 3
  /\ result.defenseDice = 2


\* ------------------------------------------- the combat system's attack
\* CombatSystem.resolveAttack(attackingTerritoryId, defendingTerritoryId,
\* { attackDice }), the attack the AI player makes: no player holds a
\* technology and no event is active, so every roll has bonus 0.  A conquest
\* is completed at once: transferTerritory, moveArmies, eliminatePlayer and
\* the enhanced game state's checkVictoryConditions (its economic,
\* technological and diplomatic branches need technologies nobody holds).
\* attackDice 0 stands for an absent option.
resolveAttack(attackingTerritoryId, defendingTerritoryId, attackDice) ==
  LET attackingPlayerId == occupyingPlayer[attackingTerritoryId]
      defendingPlayerId == occupyingPlayer[defendingTerritoryId]
      totalAttackingArmies == getTotalArmies(armies[attackingTerritoryId])
      maxAttackDice == Min(3, totalAttackingArmies - 1)
      dice == IF attackDice = 0 THEN maxAttackDice ELSE attackDice
      rejected ==
        \/ ~isAdjacentTo(attackingTerritoryId, defendingTerritoryId)
        \/ attackingPlayerId = NoPlayer
        \/ defendingPlayerId = NoPlayer
        \/ attackingPlayerId = defendingPlayerId
        \/ totalAttackingArmies < 2
        \/ dice < 1
        \/ dice > maxAttackDice
  IN
  IF rejected
  THEN /\ result' = Failure("attack")
       /\ UNCHANGED gameVars
       /\ UNCHANGED eventLog
  ELSE
    LET defenseDice == Min(2, getTotalArmies(armies[defendingTerritoryId])) IN
    \E rolledA \in rollDice(dice), rolledD \in rollDice(defenseDice) :
      LET attackRolls    == SortDescending(rolledA)
          defenseRolls   == SortDescending(rolledD)
          \* compareDice and applyCasualties
          fromArmies     == applyLosses(armies[attackingTerritoryId],
                                        attackerLossesOf(attackRolls, defenseRolls))
          toArmies       == applyLosses(armies[defendingTerritoryId],
                                        defenderLossesOf(attackRolls, defenseRolls))
          attackerLosses == getTotalArmies(armies[attackingTerritoryId])
                              - getTotalArmies(fromArmies)
          defenderLosses == getTotalArmies(armies[defendingTerritoryId])
                              - getTotalArmies(toArmies)
          conquered      == getTotalArmies(toArmies) = 0
          \* transferTerritory
          landed         == Units(dice, 0, 0)
          owner1         == [occupyingPlayer EXCEPT
                               ![defendingTerritoryId] = attackingPlayerId]
          terr1          == [playerTerritories EXCEPT
                               ![attackingPlayerId] = Append(@, defendingTerritoryId),
                               ![defendingPlayerId] =
                                 SelectSeq(@, LAMBDA id : id # defendingTerritoryId)]
          \* moveArmies
          moved          == IF getTotalArmies(fromArmies) <= dice
                            THEN [from |-> fromArmies, to |-> landed]
                            ELSE moveUnits(fromArmies, landed, dice)
          \* eliminatePlayer
          out            == Len(terr1[defendingPlayerId]) = 0
          elim1          == IF out THEN [eliminated EXCEPT ![defendingPlayerId] = TRUE]
                            ELSE eliminated
          cards1         == IF out
                            THEN [playerCards EXCEPT
                                    ![attackingPlayerId] = @ \o playerCards[defendingPlayerId],
                                    ![defendingPlayerId] = << >>]
                            ELSE playerCards
          forced         == out /\ Len(cards1[attackingPlayerId]) > 5
          \* checkVictoryConditions
          activePlayers  == SelectSeq(PlayerIds, LAMBDA p : ~elim1[p])
          won            == Len(activePlayers) = 1
      IN  /\ result' = [NoResult EXCEPT !.op = "attack", !.success = TRUE,
                          !.attackerLosses = attackerLosses,
                          !.defenderLosses = defenderLosses,
                          !.territoryConquered = conquered]
          /\ IF conquered
             THEN /\ occupyingPlayer' = owner1
                  /\ playerTerritories' = terr1
                  /\ armies' = [armies EXCEPT ![attackingTerritoryId] = moved.from,
                                              ![defendingTerritoryId] = moved.to]
                  /\ cardAwarded' = TRUE
                  /\ eliminated' = elim1
                  /\ playerCards' = cards1
                  /\ gameOver' = (IF won THEN TRUE ELSE gameOver)
                  /\ winner' = (IF won THEN activePlayers[1] ELSE winner)
                  /\ eventLog' = eventLog
                       \o (IF out THEN <<"player-eliminated">> ELSE << >>)
                       \o (IF forced THEN <<"forced-card-trade">> ELSE << >>)
                       \o (IF won THEN <<"victory">> ELSE << >>)
                       \o <<"attack">>
             ELSE /\ armies' = [armies EXCEPT ![attackingTerritoryId] = fromArmies,
                                              ![defendingTerritoryId] = toArmies]
                  /\ eventLog' = Append(eventLog, "attack")
                  /\ UNCHANGED <<occupyingPlayer, playerTerritories, cardAwarded,
                                 eliminated, playerCards, gameOver, winner>>
          /\ UNCHANGED <<cardDeck, discardPile, currentPlayerIndex, phase, turn,
                         victoryType, pendingConquest, remainingReinforcements>>

\* one attack of the AI player's performAttacks, on a game in any position
ResolveAttack ==
  /\ result = NoResult
  /\ \E attackingTerritoryId \in Territories, defendingTerritoryId \in Territories,
        attackDice \in 0..MaxDice :
       resolveAttack(attackingTerritoryId, defendingTerritoryId, attackDice)
  /\ UNCHANGED <<eventHistory, enableEvents, activeEvents, reversals,
                 conquestAttacker, victoryProgress, features, featuresBefore, researchVars>>

InitConquer == InitAttackCheck

NextConquer == ResolveAttack

SpecConquer == InitConquer /\ [][NextConquer]_vars

\* C27: an attack never changes the owner of any territory nor any player's
\* territory list, also when it brings the defending territory to army
\* value 0: ownership moves only when the conquest is resolved.
C27_AttackKeepsOwner ==
  [][result'.op = "attack" => UNCHANGED <<occupyingPlayer, playerTerritories>>]_vars


\* ------------------------------------------------- the placement allowance
\* three players on one territory each, p1 to move, 1 or 2 infantry on
\* every territory
InitPlace ==
  \E i1, i2, i3 \in 1..2 :
    StartFrom([ThreePlayersPosition EXCEPT
                 !.index = 0,
                 !.armies = [t \in Territories |->
                               CASE t = "t1" -> Units(i1, 0, 0)
                                 [] t = "t2" -> Units(i2, 0, 0)
                                 [] t = "t3" -> Units(i3, 0, 0)]])

\* the players place armies and end their phases
NextPlace ==
  \/ PlaceArmies
  \/ EndPhase

SpecPlace == InitPlace /\ [][NextPlace]_vars

\* the allowance handlePlaceArmies works with: remainingReinforcements,
\* computed from the player's territories while it is still undefined
allowanceOf(playerId) ==
  IF remainingReinforcements = << >>
  THEN getReinforcementArmies(playerId)
  ELSE remainingReinforcements[1]

\* C28: when a player's reinforcement phase starts the remaining allowance is
\* getReinforcementArmies of that player; an accepted placement of n armies
\* (1 <= n <= remaining) on a territory of the player raises the territory
\* by n and lowers the allowance by n, so the armies placed in one phase
\* never exceed the allowance; and the phase moves on to attack exactly when
\* the allowance reaches 0.
C28_PlacementAllowance ==
  [][/\ (phase # "reinforcement" /\ phase' = "reinforcement")
          => allowanceOf(getCurrentPlayer)' = getReinforcementArmies(getCurrentPlayer)'
     /\ (result'.op = "placeReinforcements")
          => /\ allowanceOf(getCurrentPlayer) <= getReinforcementArmies(getCurrentPlayer)
             /\ \E t \in Territories, n \in 1..allowanceOf(getCurrentPlayer) :
                  /\ occupyingPlayer[t] = getCurrentPlayer
                  /\ armies' = [armies EXCEPT ![t].infantry = @ + n]
                  /\ remainingReinforcements' = <<allowanceOf(getCurrentPlayer) - n>>
     /\ (phase = "reinforcement" /\ phase' = "attack")
          <=> (phase = "reinforcement" /\ allowanceOf(getCurrentPlayer) > 0
                 /\ remainingReinforcements' = <<0>>)
    ]_vars


\* ------------------------------------------------------ the turn effect
MaxTurnEvents == 2

\* the effect "Handle AI turns and event checking" is run after the first
\* render and after every setGameState: the last call was a handler that
\* ended with setGameState, or the effect itself with expired events
effectDue ==
  \/ result.op \in {"", "placeReinforcements", "endPhase"}
  \/ result.op = "turnEffect" /\ result.expired > 0

\* the body of the effect on the turn of the player playerId who plays
\* through the interface, in the reinforcement phase: updateActiveEvents,
\* then checkForEvent, whose roll either triggers an event or does not
turnEffect(playerId) ==
  LET currentTurn == turn
      expiredEvents == SelectSeq(activeEvents, LAMBDA e : e.endTurn <= currentTurn)
  IN
  /\ ~gameOver
  /\ phase = "reinforcement"
  /\ playerId = getCurrentPlayer
  /\ reversals' = reversals \o SelectSeq(expiredEvents, LAMBDA e : e.reverseOnExpire)
  /\ activeEvents' = SelectSeq(activeEvents, LAMBDA e : e.endTurn > currentTurn)
  /\ features' = reverseAll(features, expiredEvents, 1)
  /\ \/ /\ eventHistory' = eventHistory \o expiryEntries(expiredEvents)
        /\ result' = [op |-> "turnEffect", success |-> TRUE, event |-> FALSE,
                      expired |-> Len(expiredEvents)]
        /\ UNCHANGED gameVars
        /\ UNCHANGED conquestAttacker
     \/ /\ enableEvents
        /\ ~eliminated[playerId]
        /\ Len(eventHistory) < MaxTurnEvents
        /\ \E e \in {x \in EventEffects : isPotentialEvent(x, playerId)} :
             /\ \E event \in prepareEvent(e, playerId) : eventEffects(event)
             /\ eventHistory' = (eventHistory \o expiryEntries(expiredEvents))
                                  \o <<HistoryEntry(e.type, FALSE)>>
        /\ result' = [op |-> "turnEffect", success |-> TRUE, event |-> TRUE,
                      expired |-> Len(expiredEvents)]
  /\ UNCHANGED <<eventLog, enableEvents, victoryProgress, featuresBefore, researchVars>>

TurnEffect ==
  /\ effectDue
  /\ turnEffect(getCurrentPlayer)

\* the player acts once the effect has run
PlaceAfterEffect ==
  /\ ~(phase = "reinforcement" /\ effectDue)
  /\ PlaceArmies

EndPhaseAfterEffect ==
  /\ ~(phase = "reinforcement" /\ effectDue)
  /\ EndPhase

InitEffect == StartFrom(EventsPosition)

NextEffect ==
  \/ TurnEffect
  \/ PlaceAfterEffect
  \/ EndPhaseAfterEffect

SpecEffect == InitEffect /\ [][NextEffect]_vars

\* C29: the event roll is made once per player turn, at its start: a new
\* event is triggered only by the first run of the turn effect in a
\* reinforcement phase (the run that follows the start of the game or the
\* end of the previous phase), never by a run that follows a placement, so
\* that at most one event is triggered per player turn.
C29_EventRollOncePerTurn ==
  [][(result'.op = "turnEffect" /\ result'.event)
       => result.op \in {"", "endPhase"}]_vars


\* ------------------------------------------------ reversible territory events
\* reversible events of territory scope, as the one of the events test: any
\* feature, switched on or off
ReversibleEvents ==
  { [id |-> "test-reversible-event", type |-> "test-reversible-event",
     duration |-> 2, reverseOnExpire |-> TRUE,
     maxOccurrences |-> 0, minTerritories |-> 0,
     effectType |-> "territory",
     territoryEffect |-> [feature |-> f, value |-> v]] :
      f \in {"hasPort", "hasResearchCenter"}, v \in BOOLEAN }

RegisterReversible ==
  \E event \in ReversibleEvents : registerActiveEvent(event, getCurrentPlayer)

\* a game whose territories carry any flags (events and the map set them)
InitReverse ==
  \E fs \in [Territories -> [FeatureNames -> BOOLEAN]] :
    /\ \A t \in Territories : ~fs[t]["hasCapital"]
    /\ StartWith(EventsPosition, "reinforcement", fs)

NextReverse ==
  \/ RegisterReversible
  \/ UpdateEvents
  \/ TurnPasses

SpecReverse == InitReverse /\ [][NextReverse]_vars

\* C30: when a reversible territory event expires, the feature flag it set
\* on each of its affected territories is back to the value the territory
\* had immediately before the event was applied, whatever that value was.
C30_ReversalRestoresFeatures ==
  [][result'.op = "updateActiveEvents"
       => \A i \in 1..Len(activeEvents) :
            LET e == activeEvents[i] IN
            (e.reverseOnExpire /\ e.effectType = "territory"
               /\ ~Includes(activeEvents', e))
              => \A j \in 1..Len(e.affectedTerritories) :
                   features'[e.affectedTerritories[j]][e.territoryEffect.feature]
                     = featuresBefore[e.affectedTerritories[j]][e.territoryEffect.feature]
    ]_vars


\* ------------------------------------------------------ occurrence cap
\* C31: an event type can trigger exactly while it has been triggered fewer
\* than maxOccurrences times and its conditions hold for the current player;
\* it is never triggered more than maxOccurrences times, and the expiry of
\* an earlier event is not counted as an occurrence.
C31_OccurrenceCap ==
  \A event \in DurationEvents :
    LET triggered == Len(SelectSeq(eventHistory,
                                   LAMBDA h : h.type = event.type /\ ~h.expired))
    IN  event.maxOccurrences # 0
          => /\ triggered <= event.maxOccurrences
             /\ isPotentialEvent(event, getCurrentPlayer)
                  <=> (/\ triggered < event.maxOccurrences
                       /\ checkEventConditions(event, getCurrentPlayer))

\* ------------------------------------------------ research under the turns
\* the technology ids a caller passes: those of the tree and one that the
\* tree does not hold
TechRequests == Techs \cup {"warp-drive"}

\* technology lists a player reaches through research
ResearchedLists ==
  { << >>, <<"scientific-method">>, <<"education", "knowledge-sharing">>,
    <<"scientific-method", "universities", "advanced-research">> }

\* startResearch is called for any player and any technology, in any phase
StartResearch ==
  \E playerId \in Players, techId \in TechRequests : startResearch(playerId, techId)

\* a game in which p1 holds one of the lists and some research points, p3
\* holds 9 points, and the eliminated p2 holds 30
InitResearch ==
  /\ StartBoard(RoundPosition, "reinforcement", NoFeatures)
  /\ \E held \in ResearchedLists, points \in {0, 11, 26} :
       /\ technologies = [p \in Players |-> IF p = "p1" THEN held ELSE << >>]
       /\ researchPoints = [p \in Players |->
                              CASE p = "p1" -> points
                                [] p = "p2" -> 30
                                [] p = "p3" -> 9]
  /\ researchProgress = NoResearch

\* the turns of a game of research
MaxResearchTurn == 4

TurnStarts ==
  /\ EnhancedNextPhase
  /\ turn' <= MaxResearchTurn

NextResearch ==
  \/ StartResearch
  \/ TurnStarts

SpecResearch == InitResearch /\ [][NextResearch]_vars

\* C32: startResearch succeeds only if the player is not eliminated, neither
\* holds nor already researches the technology, holds every prerequisite of it
\* and has at least its cost in research points; on success the research
\* points drop by exactly the cost and stay >= 0; on failure nothing changes;
\* and a technology that a player obtains had all its prerequisites held
C32_ResearchGuard ==
  [][/\ result'.op = "startResearch" =>
          LET playerId == result'.playerId
              techId == result'.techId
          IN  /\ result'.success =>
                   /\ ~eliminated[playerId]
                   /\ ~Includes(technologies[playerId], techId)
                   /\ ~isResearching(playerId, techId)
                   /\ \A prereq \in TechTree[techId].prerequisites :
                         Includes(technologies[playerId], prereq)
                   /\ researchPoints[playerId] >= getResearchCost(playerId, techId)
                   /\ researchPoints'[playerId]
                        = researchPoints[playerId] - getResearchCost(playerId, techId)
                   /\ researchPoints'[playerId] >= 0
                   /\ \E i \in 1..Len(researchProgress'[playerId]) :
                         researchProgress'[playerId][i].techId = techId
              /\ ~result'.success =>
                   UNCHANGED <<gameVars, researchVars, eventLog, eventHistory,
                               enableEvents, activeEvents, reversals,
                               conquestAttacker, victoryProgress, features,
                               featuresBefore>>
     /\ \A p \in Players, t \in Techs :
          Includes(technologies'[p], t) /\ ~Includes(technologies[p], t)
            => /\ isResearching(p, t)
               /\ \A prereq \in TechTree[t].prerequisites :
                     Includes(technologies[p], prereq)]_vars

\* a research of a technology that has a prerequisite has been completed
C32_Witness ==
  /\ Includes(technologies["p1"], "universities")
  /\ ~Includes(technologies["p1"], "advanced-research")
  /\ Len(eventLog) > 0
  /\ \E i \in 1..Len(eventLog) : eventLog[i] = "research-complete"

\* ------------------------------------------- research in the running game
\* the territory t3 carries a research centre
ResearchCentre ==
  [NoFeatures EXCEPT !["t3"]["hasResearchCenter"] = TRUE]

\* the game of the engine: p1 is to move, p3 holds some research points
InitStudy ==
  /\ StartBoard(RoundPosition, "reinforcement", ResearchCentre)
  /\ \E held \in ResearchedLists, points \in {9, 10, 26} :
       /\ technologies = [p \in Players |-> IF p = "p3" THEN held ELSE << >>]
       /\ researchPoints = [p \in Players |-> IF p = "p3" THEN points ELSE 0]
  /\ researchProgress = NoResearch

\* the players start research and end their phases
NextStudy ==
  \/ StartResearch
  \/ EndPhase

SpecStudy == InitStudy /\ [][NextStudy]_vars

\* C33: at every turn start of a player that is not eliminated each of the
\* player's researches has one turn less remaining, and a research that had
\* one turn remaining is completed: its technology is added to the player and
\* its entry is removed
C33_ResearchAdvances ==
  [][currentPlayerIndex' # currentPlayerIndex =>
       LET p == PlayerIds[currentPlayerIndex' + 1]
       IN  ~eliminated'[p] =>
             \A i \in 1..Len(researchProgress[p]) :
                LET e == researchProgress[p][i]
                IN  IF e.turnsRemaining = 1
                    THEN /\ Includes(technologies'[p], e.techId)
                         /\ \A j \in 1..Len(researchProgress'[p]) :
                               researchProgress'[p][j].techId # e.techId
                    ELSE \E j \in 1..Len(researchProgress'[p]) :
                            researchProgress'[p][j]
                              = [e EXCEPT !.turnsRemaining = @ - 1]]_vars

\* ------------------------------------------------------------ game over
\* C34: whenever gameOver is true the winner is a player that is not
\* eliminated and a victory type is recorded; and once gameOver is set,
\* gameOver, the winner and the victory type never change again
C34_GameOverFinal ==
  [][/\ gameOver' => /\ winner' \in Players
                      /\ ~eliminated'[winner']
                      /\ victoryType' # ""
     /\ gameOver => UNCHANGED <<gameOver, winner, victoryType>>]_vars

\* ------------------------------------------------- owners and territory lists
\* C35: for every territory t and player p, the owner of t is p if and only
\* if t is in p's territory list; no territory is in the lists of two players
\* or twice in one list
C35_OwnerMatchesList ==
  /\ \A t \in Territories, p \in Players :
        occupyingPlayer[t] = p <=> Includes(playerTerritories[p], t)
  /\ \A t \in Territories, p, q \in Players :
        Includes(playerTerritories[p], t) /\ Includes(playerTerritories[q], t)
          => p = q
  /\ \A p \in Players :
        \A i, j \in 1..Len(playerTerritories[p]) :
           playerTerritories[p][i] = playerTerritories[p][j] => i = j

\* ------------------------------------------------------ no empty territory
\* C36: every territory that has an owner holds at least 1 army value, except
\* the defending territory of the open pending conquest
C36_OwnedNotEmpty ==
  \A t \in Territories :
     /\ occupyingPlayer[t] # NoPlayer
     /\ ~(pendingConquest # << >> /\ pendingConquest[1].toTerritoryId = t)
     => getTotalArmies(armies[t]) >= 1

\* ------------------------------------------------ range of a new conquest
\* the attack phase of a three-player game whose territories t1 and t2 hold
\* infantry and cavalry in every mix of up to 3 infantry and 1 cavalry
InitOpen ==
  \E index \in 0..2, i1, i2 \in 0..3, c1, c2 \in 0..1 :
     /\ i1 + c1 > 0
     /\ i2 + c2 > 0
     /\ StartIn([ThreePlayersPosition EXCEPT
                   !.index = index,
                   !.armies = [t \in Territories |->
                                 CASE t = "t1" -> Units(i1, c1, 0)
                                   [] t = "t2" -> Units(i2, c2, 0)
                                   [] t = "t3" -> Units(3, 0, 0)]], "attack")

\* an attack while no conquest is pending
FirstAttack ==
  /\ pendingConquest = << >>
  /\ Attack

NextOpen ==
  \/ FirstAttack
  \/ ResolveConquest

SpecOpen == InitOpen /\ [][NextOpen]_vars

\* C37: whenever a pending conquest is opened, its minArmies is at most its
\* maxArmies, so that some army count is acceptable
C37_ConquestRangeNotEmpty ==
  [][pendingConquest' # << >> /\ pendingConquest' # pendingConquest
       => pendingConquest'[1].minArmies <= pendingConquest'[1].maxArmies]_vars

\* -------------------------------------------- life of a pending conquest
\* C38: a pending conquest exists only during the attack phase of the turn
\* of the player who opened it
C38_PendingOnlyInAttack ==
  pendingConquest # << >>
    => /\ phase = "attack"
       /\ getCurrentPlayer = conquestAttacker

\* ------------------------------------------------------- cards of a trade
\* C39: an accepted trade names three distinct cards that are all in the hand
\* of the trading player; it lowers the hand by exactly 3 cards and raises
\* the discard pile by exactly those 3 cards
C39_TradeThreeDistinct ==
  [][result'.op = "tradeCards" /\ result'.success =>
       LET hand == playerCards[getCurrentPlayer]
           traded == SubSeq(discardPile', Len(discardPile) + 1, Len(discardPile'))
       IN  /\ Len(traded) = 3
           /\ \A i, j \in 1..Len(traded) : traded[i] = traded[j] => i = j
           /\ \A i \in 1..Len(traded) : Includes(hand, traded[i])
           /\ Len(playerCards'[getCurrentPlayer]) = Len(hand) - 3
           /\ \A i \in 1..Len(traded) :
                 ~Includes(playerCards'[getCurrentPlayer], traded[i])]_vars

\* --------------------------------------------- conquest of a neutral territory
\* C40: no call of resolveConquest ends with the owner of the conquered
\* territory changed while the pending record is still open, also when the
\* territory had no owner
C40_NeutralConquestCompletes ==
  [][/\ pendingConquest # << >>
     /\ result'.op \in {"resolveConquest", "rejected"}
     /\ occupyingPlayer'[pendingConquest[1].toTerritoryId]
          # occupyingPlayer[pendingConquest[1].toTerritoryId]
     => pendingConquest' = << >>]_vars

====
